---- MODULE Spec2Model ----
(***************************************************************************)
(* AnalogChannel channel strip: the signal-chain engine.                   *)
(*                                                                         *)
(* Numbers are fixed point.  Decibels, Hz offsets and Q offsets are in     *)
(* thousandths (1 dB = 1000); linear gains, crossfade values and samples   *)
(* are in thousandths too (1.0 = 1000).                                    *)
(***************************************************************************)
EXTENDS Integers, Sequences, FiniteSets, TLC

(***************************************************************************)
(* Bounds of the model.                                                    *)
(***************************************************************************)
MaxBlocks == 2
MaxWrites == 2
MaxPrepare == 1

(***************************************************************************)
(* Fixed-point scales.                                                     *)
(***************************************************************************)
One == 10 * 100

Abs(x) == IF x < 0 THEN -x ELSE x
Min(a, b) == IF a < b THEN a ELSE b
Max(a, b) == IF a > b THEN a ELSE b
\* juce::jlimit (lo, hi, v)
Jlimit(lo, hi, v) == IF v < lo THEN lo ELSE IF v > hi THEN hi ELSE v
\* C++ integer/float division rounds towards zero; \div floors
DivT(a, b) == IF a >= 0 THEN a \div b ELSE -((-a) \div b)

(***************************************************************************)
(* ChannelVariation.h: the 48 presets, in thousandths.                     *)
(***************************************************************************)
NUM_CHANNELS == 48

Preset(t) ==
  [eqTrebleGain |-> t[1], eqTrebleFreq |-> t[2], eqBassGain |-> t[3], eqBassFreq |-> t[4],
   eqBell1Freq |-> t[5], eqBell1Gain |-> t[6], eqBell1Q |-> t[7],
   eqBell2Freq |-> t[8], eqBell2Gain |-> t[9], eqBell2Q |-> t[10],
   lpfFreq |-> t[11], lpfQ |-> t[12], hpfFreq |-> t[13], hpfQ |-> t[14],
   consoleDrive |-> t[15], outputGain |-> t[16]]

\* ChannelVariationPreset{}: value-initialised, every offset zero
NeutralPreset == Preset(<<0, 0, 0, 0, 0, 0, 0, 0, 0, 0, 0, 0, 0, 0, 0, 0>>)

\* presets[i] of the source is presets[i + 1] here (sequences start at 1)
presets ==
  <<
     Preset(<<147, -8210, -182, 6350, -4170, 214, -38, 7520, -187, 43, 62700, -29, -5180, 51, -117, -58>>),
     Preset(<<-218, 12640, 95, -3820, 5930, -261, 47, -6280, 312, -52, -71300, 41, 4760, -38, -120, 74>>),
     Preset(<<263, -14370, -124, 8910, -8440, 189, 29, 3660, -228, -15, 88500, 53, 6390, 24, 129, 37>>),
     Preset(<<-89, 5730, 251, -7140, 9270, -305, -44, -2890, 163, 58, -53800, -47, -7520, -33, 35, -81>>),
     Preset(<<174, 10280, -207, 4560, -6710, 277, 36, 8190, -141, -27, 76200, 19, 3840, 46, -88, 65>>),
     Preset(<<-295, -6940, 136, -9230, 4850, -196, -51, -9530, 249, 34, -94700, -56, -2170, -59, -79, -44>>),
     Preset(<<112, 15820, -163, 2470, 7380, 324, 21, -4910, -275, 49, 43600, 37, 7610, 11, -116, 28>>),
     Preset(<<-241, -11590, 279, 5680, -3120, -158, -32, 6740, 207, -41, -68900, 44, -4950, 57, 8, -72>>),
     Preset(<<228, 3460, -91, -6790, -9860, 183, 54, 2370, -294, 26, 91400, -22, 5280, -48, 203, 83>>),
     Preset(<<-157, -9170, 204, 8340, 6590, -237, -19, -7460, 152, -55, -81300, 31, -6830, 42, -178, -19>>),
     Preset(<<286, 7920, -145, -4210, 8730, 268, 45, -5620, -319, 18, 57800, 49, 2940, -25, 127, 51>>),
     Preset(<<-198, 13240, 117, 7560, -7210, -282, -39, 9180, 226, 52, -46500, -43, 6470, 35, -219, -67>>),
     Preset(<<134, -4680, -226, -8970, 3940, 301, 28, -8350, -174, -46, 73100, 26, -3590, -54, 75, 76>>),
     Preset(<<-273, 11360, 189, 3150, -5470, -145, 59, 4290, 338, 13, -99200, -51, 7280, 39, -96, -86>>),
     Preset(<<251, -15930, -78, 9480, 9520, 217, -42, -3710, -256, 37, 85600, 54, 4130, 48, 229, 42>>),
     Preset(<<-106, 6510, 242, -5820, -2630, -329, 24, 7940, 195, -31, -62400, 17, -7910, -44, -153, -53>>),
     Preset(<<192, 14790, -159, 6270, 6180, 254, 51, -9870, -211, 45, 51900, -35, 5760, 22, 113, 61>>),
     Preset(<<-264, -7830, 127, -2940, -8910, -176, -36, 5430, 283, -49, -77800, 46, -1680, -57, -206, -24>>),
     Preset(<<219, 9420, -235, 7830, 4760, 342, 33, -6590, -168, 56, 94300, 28, 8050, 14, 191, 79>>),
     Preset(<<-183, -12170, 96, -9610, -4380, -223, -47, 8760, 147, 21, -58700, -39, -5410, 43, -132, -71>>),
     Preset(<<297, 4250, -113, 4920, 7840, 186, 41, -2140, -305, -26, 68500, 52, 3260, -52, 90, 38>>),
     Preset(<<-142, -10740, 263, -7380, 9140, -271, 19, 3920, 234, 48, -83600, -45, 6920, 31, -242, -89>>),
     Preset(<<168, 12980, -194, 8160, -6270, 312, -29, -8140, -189, 38, 79700, 24, -4270, -41, 146, 54>>),
     Preset(<<-231, 5190, 148, -3540, 5610, -198, 53, -4850, 276, -34, -91800, 36, -8160, 59, -114, -47>>),
     Preset(<<205, -13620, -87, 5730, -9350, 245, 44, 6210, -327, 16, 46200, -48, 7540, 27, 215, 68>>),
     Preset(<<-119, 8370, 217, -6480, 3480, -263, -51, 9670, 154, 42, -54300, 49, 2830, -36, -195, -82>>),
     Preset(<<278, 15410, -176, 9270, 8060, 192, 37, -7380, -248, -53, 97100, 33, 5970, 55, 74, 25>>),
     Preset(<<-247, -6280, 134, 2190, -5920, -318, 23, 4570, 201, 29, -73500, -42, -3140, -46, -161, -36>>),
     Preset(<<156, 11830, -248, -8050, 6830, 289, -45, -9260, -137, 51, 61800, 19, -6720, 34, 178, 73>>),
     Preset(<<-209, -9560, 103, 7410, -7590, -241, 31, 2760, 315, -38, -86400, 45, 4480, -58, -233, -63>>),
     Preset(<<237, 3940, -162, -4860, 9480, 224, 57, -5130, -293, 25, 53700, -27, 8340, 49, 121, 41>>),
     Preset(<<-125, -14890, 285, 6930, -3270, -179, -34, 7480, 167, 46, -49600, 38, -7260, -23, -145, -77>>),
     Preset(<<291, 7160, -196, 9840, 5290, 307, 22, -8670, -215, -41, 88900, 54, 3680, 37, 227, 85>>),
     Preset(<<-171, 13570, 128, -2370, -9170, -252, 48, 3840, 286, 32, -94300, -31, 5190, -49, -125, -52>>),
     Preset(<<183, -8450, -254, 5160, 7920, 173, -39, -6810, -334, 56, 71600, 27, -5930, 43, 102, 69>>),
     Preset(<<-284, 10620, 91, -9380, 4130, -296, 35, 9420, 142, -47, -67200, -53, 6510, 18, -202, -31>>),
     Preset(<<146, -11280, -217, 8690, -8540, 259, 41, 5280, -186, 24, 56400, 46, -2860, -56, 160, 57>>),
     Preset(<<-262, 4830, 174, 3620, 6470, -208, -52, -3590, 321, -19, -82700, 29, 7830, 52, -180, -88>>),
     Preset(<<214, 15270, -139, -7520, -5180, 331, 28, 8930, -269, 48, 92800, -44, 4750, 15, 196, 33>>),
     Preset(<<-153, -5720, 267, 6140, 9830, -145, -46, -7940, 238, 36, -76900, 41, -8470, -33, -139, -64>>),
     Preset(<<269, 9810, -104, -5290, 3760, 195, 54, -9510, -312, -28, 64500, 51, 2470, 45, 133, 78>>),
     Preset(<<-197, -12940, 221, 8870, -6350, -283, 17, 6170, 157, 59, -59100, -37, 5620, -51, -252, -46>>),
     Preset(<<128, 6390, -186, 4180, 8290, 247, -31, -4260, -224, 42, 48300, 34, -7180, 26, 80, 84>>),
     Preset(<<-236, -15160, 152, -6710, -9760, -165, 49, 7620, 298, -54, -98600, 47, 3910, 39, -106, -72>>),
     Preset(<<193, 11540, -273, 9560, 5840, 216, 38, -2480, -347, 21, 74800, -25, 6290, -42, 219, 49>>),
     Preset(<<-108, -3670, 239, -8240, -7430, -329, -43, 4910, 182, 33, -51400, 56, -4530, 58, -152, -59>>),
     Preset(<<257, 8960, -121, 7280, 9610, 274, 26, -5760, -197, -37, 85200, 19, 8720, 47, 189, 66>>),
     Preset(<<-165, -7290, 108, 3470, -4690, -235, 52, 8380, 261, -44, -88300, -49, -6140, -29, -223, -81>>)
  >>

(***************************************************************************)
(* updateAllSections: the preset a channel gets.  mode and pair are the    *)
(* ints the refresh casts from channelVariationMode and channelPair.       *)
(***************************************************************************)
\* a faulty selection that treats Mono like Stereo; the selection property
\* must tell it from VariationIndex
VariationIndexStereoOnly(mode, pair, ch) ==
  IF mode = 1 \/ mode = 2 THEN pair * 2 + ch ELSE -1

VariationIndex(mode, pair, ch) ==
  IF mode = 1 THEN pair * 2 + ch
  ELSE IF mode = 2 THEN pair * 2
  ELSE -1

ChannelPreset(variationIndex) ==
  IF variationIndex >= 0 /\ variationIndex < NUM_CHANNELS
    THEN presets[variationIndex + 1]
    ELSE NeutralPreset

(***************************************************************************)
(* std::pow (10.0f, dB / 20.0f) on thousandths of a dB, result in          *)
(* thousandths: halving/doubling every 6.0206 dB, then the exponential     *)
(* series of the remainder.                                                *)
(***************************************************************************)
ExpSeries(z) ==
  \* exp(z / One) * One for |z| < One, five terms (each from the one before:
  \* the products stay within 32 bits)
  LET t2 == DivT(z * z, 2 * One)
      t3 == DivT(t2 * z, 3 * One)
      t4 == DivT(t3 * z, 4 * One)
  IN  One + z + t2 + t3 + t4

RECURSIVE DbToLinear(_)
DbToLinear(mdB) ==
  IF mdB >= 6021 THEN 2 * DbToLinear(mdB - 6021)
  ELSE IF mdB <= -6021 THEN DivT(DbToLinear(mdB + 6021), 2)
  ELSE ExpSeries(DivT(mdB * 115129, One * One))

(***************************************************************************)
(* The parameters of the value tree (createParameterLayout) that this      *)
(* model varies, with the values a control thread may store.  Float and    *)
(* dB parameters are in thousandths, a bool is 0 or One (the refresh       *)
(* tests it against 0.5), choice and int parameters are plain integers.    *)
(* Every other parameter keeps its default.                                *)
(***************************************************************************)
BypassParams ==
  {"preInputBypass", "filtersBypass", "ctrlCompBypass", "eqBypass",
   "styleCompBypass", "consoleBypass", "outStageBypass", "volumeBypass"}

ParamDomain ==
  [p \in BypassParams |-> {0, One}] @@
  [hpfFreq |-> {20000, 100000},
   outStageAlgo |-> {0, 4},
   outputGain |-> {0, -6000},
   channelVariationMode |-> {0, 1, 2},
   channelPair |-> {0, 23}]

ParamNames == DOMAIN ParamDomain

DefaultParams ==
  [p \in BypassParams |-> 0] @@
  [hpfFreq |-> 20000, outStageAlgo |-> 0, outputGain |-> 0,
   channelVariationMode |-> 0, channelPair |-> 0]

\* a saved state a host restores with setStateInformation: every section bypassed
AllBypassedState == [p \in BypassParams |-> One] @@ DefaultParams

SavedStates == {AllBypassedState}

\* Sample rates the host prepares the processor with
SampleRates == {100, 200}
\* Sample values the host puts into the buffers
SampleVals == {-500, 500}
\* Results of the uninterpreted DSP algorithms
WetVals == {250}
\* Gain-reduction readings (thousandths of a dB) of the uninterpreted compressors
GRVals == {-3000}

(***************************************************************************)
(* BypassableSection                                                       *)
(***************************************************************************)
BaseFields ==
  [targetBypass |-> FALSE, bypassMix |-> 0, fadeCoeff |-> 0, currentSampleRate |-> 44100]

SetBypass(s, shouldBypass) == [s EXCEPT !.targetBypass = shouldBypass]

\* the float +infinity, the quotient 1.0f / 0.0f
FloatInf == 2 ^ 30

\* fadeCoeff = 1.0f / (0.01f * sampleRate), with no test of sampleRate
BaseSetSampleRate(s, sampleRate) ==
  [s EXCEPT !.currentSampleRate = sampleRate,
            !.fadeCoeff = IF sampleRate = 0 THEN FloatInf ELSE DivT(100 * One, sampleRate)]

\* a faulty crossfade that switches to the target at once; the fade property
\* must tell it from BypassStep
BypassStepInstant(s) ==
  IF s.targetBypass
    THEN [reset |-> (s.bypassMix = 0), internal |-> FALSE, fading |-> FALSE, mix |-> One]
    ELSE [reset |-> FALSE, internal |-> TRUE, fading |-> s.bypassMix > 10, mix |-> 0]

\* What process() does before it returns: the new crossfade value, whether
\* reset() is called and whether processInternal is called.
BypassStep(s) ==
  IF s.targetBypass
    THEN [reset |-> (s.bypassMix = 0),
          internal |-> FALSE,
          fading |-> FALSE,
          mix |-> IF s.bypassMix < 990
                    THEN LET m == IF s.fadeCoeff = FloatInf THEN FloatInf
                                  ELSE s.bypassMix + DivT((One - s.bypassMix) * s.fadeCoeff, One)
                         IN  IF m > 990 THEN One ELSE m
                    ELSE s.bypassMix]
    ELSE IF s.bypassMix > 10
      THEN [reset |-> FALSE,
            internal |-> TRUE,
            fading |-> TRUE,
            mix |-> LET m == IF s.fadeCoeff = FloatInf THEN -FloatInf
                             ELSE s.bypassMix + DivT((0 - s.bypassMix) * s.fadeCoeff, One)
                    IN  IF m < 10 THEN 0 ELSE m]
      ELSE [reset |-> FALSE, internal |-> TRUE, fading |-> FALSE, mix |-> s.bypassMix]

\* a faulty wrapper that keeps crossfading towards the wet signal while the
\* section is bypassed; the identity property must tell it from BypassOut
BypassOutBlended(b, input, wet) ==
  IF b.fading \/ ~b.internal THEN DivT(wet * (One - b.mix) + input * b.mix, One) ELSE wet

\* The value process() returns; wet is the result of processInternal (input)
BypassOut(b, input, wet) ==
  IF ~b.internal THEN input
  ELSE IF b.fading THEN DivT(wet * (One - b.mix) + input * b.mix, One)
  ELSE wet

(***************************************************************************)
(* The eight sections.  A section is a record: the BypassableSection       *)
(* fields, its parameters, its derived coefficients and its algorithm      *)
(* state.  Derived coefficients of the uninterpreted DSP algorithms are    *)
(* kept symbolically, as the tuple of values they were computed from;      *)
(* Zeroed stands for coefficient slots holding 0.0.  hasHistory tells      *)
(* whether the algorithm state (delay lines, envelopes) was written since  *)
(* it was last cleared.                                                    *)
(***************************************************************************)
Zeroed == <<>>

\* PreInputSection: algorithm Pure, ToTape8 member with its coefficient arrays
PreInputInit ==
  BaseFields @@ [driveDB |-> 0, driveLinear |-> One, tapeCoeffs |-> Zeroed, hasHistory |-> FALSE]

PreInputSetDrive(s, dB) == [s EXCEPT !.driveDB = dB, !.driveLinear = DbToLinear(dB)]

\* toTape8.setSampleRate computes gslew thresholds and the hdbA/hdbB biquads
PreInputSetSampleRate(s, sampleRate) ==
  [BaseSetSampleRate(s, sampleRate) EXCEPT !.tapeCoeffs = <<sampleRate>>]

\* toTape8.reset zeroes gslew[] and hdbA[]/hdbB[], coefficient slots included
PreInputReset(s) == [s EXCEPT !.tapeCoeffs = Zeroed, !.hasHistory = FALSE]

\* FilterSection: slopes and Q modes at their defaults (12 dB/oct, 6 dB/oct, Normal)
FilterInit ==
  BaseFields @@ [hpfFreq |-> 20000, lpfFreq |-> 24000000, hpfQOffset |-> 0, lpfQOffset |-> 0,
                 hpfCoeffs |-> Zeroed, lpfCoeffs |-> Zeroed, hasHistory |-> FALSE]

UpdateFilters(s) ==
  IF s.currentSampleRate <= 0 THEN s
  ELSE LET nyq == s.currentSampleRate * 490
       IN  [s EXCEPT !.hpfCoeffs = <<s.currentSampleRate,
                                     Jlimit(20000, nyq, s.hpfFreq),
                                     Jlimit(100, 5000, 707 + s.hpfQOffset)>>,
                     !.lpfCoeffs = <<s.currentSampleRate,
                                     Jlimit(20000, nyq, s.lpfFreq),
                                     Jlimit(100, 5000, 500 + s.lpfQOffset)>>]

\* heap objects one updateFilters call creates (makeMatchedHighPass, makeMatchedLowPass)
UpdateFiltersAllocs(s) == IF s.currentSampleRate <= 0 THEN 0 ELSE 2

SetHPF(s, freqHz) == UpdateFilters([s EXCEPT !.hpfFreq = freqHz])
SetLPF(s, freqHz) == UpdateFilters([s EXCEPT !.lpfFreq = freqHz])
SetHPFQOffset(s, offset) == UpdateFilters([s EXCEPT !.hpfQOffset = offset])
SetLPFQOffset(s, offset) == UpdateFilters([s EXCEPT !.lpfQOffset = offset])

\* hpf1, hpf2, lpf1 are reset, lpf2 is not: with the 6 dB/oct default lpf2 is unused
FilterSetSampleRate(s, sampleRate) ==
  UpdateFilters([BaseSetSampleRate(s, sampleRate) EXCEPT !.hasHistory = FALSE])

FilterReset(s) == [s EXCEPT !.hasHistory = FALSE]

\* ControlCompSection: A/R mode Normal (30 ms / 100 ms / 2.5:1); gr is the
\* compressor's gain-reduction meter in thousandths of a dB
ControlCompInit ==
  BaseFields @@ [thresholdDB |-> -10000, compCoeffs |-> Zeroed, gr |-> 0, hasHistory |-> FALSE]

UpdateCompressorParameters(s) ==
  [s EXCEPT !.compCoeffs = <<s.thresholdDB, s.currentSampleRate>>]

SetThreshold(s, dB) ==
  UpdateCompressorParameters([s EXCEPT !.thresholdDB = Jlimit(-30000, -100, dB)])

ControlCompSetSampleRate(s, sampleRate) ==
  UpdateCompressorParameters(BaseSetSampleRate(s, sampleRate))

\* compressor.reset: gain = seekGain = 1, t = 0, gr_meter = 1 (0 dB)
ControlCompReset(s) == [s EXCEPT !.gr = 0, !.hasHistory = FALSE]

\* EQSection: Baxandall2 shelves and two BellFilters (bell frequency indices
\* at their defaults 8 and 10, bell gains at 0 dB)
BellInit == [currentFreq |-> 1000000, currentGain |-> 0, qOffset |-> 0]

EQInit ==
  BaseFields @@ [bassGainDB |-> 0, trebleGainDB |-> 0, bassFreqHz |-> 8820000, trebleFreqHz |-> 4410000,
                 shelfCoeffs |-> Zeroed, bell1 |-> BellInit, bell2 |-> BellInit,
                 hasHistory |-> FALSE]

\* Baxandall2::updateCoefficients fills slots 0..6 of trebleA/B and bassA/B
BaxandallUpdate(s) ==
  IF s.currentSampleRate <= 0 THEN s
  ELSE [s EXCEPT !.shelfCoeffs = <<s.bassGainDB, s.trebleGainDB, s.bassFreqHz,
                                   s.trebleFreqHz, s.currentSampleRate>>]

SetBassShelf(s, dB) == BaxandallUpdate([s EXCEPT !.bassGainDB = dB])
SetBassShelfFreq(s, hz) == BaxandallUpdate([s EXCEPT !.bassFreqHz = hz])
SetTrebleShelf(s, dB) == BaxandallUpdate([s EXCEPT !.trebleGainDB = dB])
SetTrebleShelfFreq(s, hz) == BaxandallUpdate([s EXCEPT !.trebleFreqHz = hz])

getFrequencyFromIndex(index) ==
  <<50, 100, 200, 300, 400, 500, 700, 900, 1400, 2400, 3500, 5000, 7500,
    10000, 13000>>[Jlimit(0, 14, index) + 1] * One

SetBellWithVariation(freqIndex, gainDB, freqOffset, gainOffset, qOffset) ==
  [currentFreq |-> getFrequencyFromIndex(freqIndex) + freqOffset,
   currentGain |-> gainDB + gainOffset,
   qOffset |-> qOffset]

\* heap objects one BellFilter::updateCoefficients call creates (makePeakFilter)
BellUpdateAllocs(s) == IF s.currentSampleRate <= 0 THEN 0 ELSE 1

EQSetSampleRate(s, sampleRate) == BaxandallUpdate(BaseSetSampleRate(s, sampleRate))

\* baxandall.reset zeroes all nine slots of trebleA/B and bassA/B, the
\* coefficient slots 0..6 included; the bells clear their delay state
EQReset(s) == [s EXCEPT !.shelfCoeffs = Zeroed, !.hasHistory = FALSE]

\* StyleCompSection: algorithm Warm, Comp IN 0 dB, makeup 0 dB, mix 100 %
StyleCompInit ==
  BaseFields @@ [compInDB |-> 0, makeupDB |-> 0, mixPercent |-> 100 * One,
                 gr |-> 0, hasHistory |-> FALSE]

SetCompIn(s, dB) == [s EXCEPT !.compInDB = Jlimit(-18000, 60000, dB)]
SetMakeup(s, dB) == [s EXCEPT !.makeupDB = Jlimit(-6000, 24000, dB)]
SetMix(s, percent) == [s EXCEPT !.mixPercent = Jlimit(0, 100 * One, percent)]

StyleCompSetSampleRate(s, sampleRate) == BaseSetSampleRate(s, sampleRate)

StyleCompReset(s) == [s EXCEPT !.gr = 0, !.hasHistory = FALSE]

\* ConsoleSection: algorithm Clean
ConsoleInit == BaseFields @@ [driveDB |-> 0, driveGain |-> One, hasHistory |-> FALSE]

ConsoleSetDrive(s, dB) == [s EXCEPT !.driveDB = dB, !.driveGain = DbToLinear(dB)]

ConsoleSetSampleRate(s, sampleRate) == BaseSetSampleRate(s, sampleRate)

ConsoleReset(s) == [s EXCEPT !.hasHistory = FALSE]

\* OutStageSection: algorithm Clean (0) or HardClip (4), drive 0 dB
OutStageInit ==
  BaseFields @@ [currentAlgorithm |-> 0, driveDB |-> 0, driveLinear |-> One,
                 tapeCoeffs |-> Zeroed, hasHistory |-> FALSE]

OutStageSetAlgorithm(s, algo) == [s EXCEPT !.currentAlgorithm = algo]

OutStageSetDrive(s, dB) == [s EXCEPT !.driveDB = dB, !.driveLinear = DbToLinear(dB)]

OutStageSetSampleRate(s, sampleRate) ==
  [BaseSetSampleRate(s, sampleRate) EXCEPT !.tapeCoeffs = <<sampleRate>>]

OutStageReset(s) == [s EXCEPT !.tapeCoeffs = Zeroed, !.hasHistory = FALSE]

\* VolumeSection
VolumeInit == BaseFields @@ [gainDB |-> 0, gainLinear |-> One]

SetGain(s, dB) == [s EXCEPT !.gainDB = dB, !.gainLinear = DbToLinear(dB)]

(***************************************************************************)
(* State of the processor                                                  *)
(***************************************************************************)
VARIABLES
  params,        \* the atomics of the parameter tree: name -> raw value
  preInput, filters, controlComp, eq, styleComp, console, outStage, volume,
                 \* the section arrays: channel index -> section record
  meter,         \* audio-thread meter state per channel
  meterCoeffs,   \* peakDecayCoeff, outStageAttackCoeff, outStageReleaseCoeff
  atomics,       \* the metering atomics, by the name the code gives them
  pc,            \* where the audio thread is inside processBlock
  inBuf, buffer, \* per channel, the last sample of the current block: as read, as written
  callLog,       \* the section calls of the last processed sample, in order
  loaded,        \* per channel, the parameter values its last refresh loaded
  refreshed,     \* the channels whose sections the current block has refreshed
  stored,        \* the atomics stored during the current block
  rtAllocs,      \* heap objects created by the audio thread inside processBlock
  dep,           \* per location, the channels whose samples reached it
  prepared, blocks, writes, prepares,
  secState,      \* a single section under test (section-level specification)
  cvState,       \* inputs and result of the channel-variation selection
  compState,     \* a compressor strip with its meters (compressor-level specification)
  clipState,     \* a clipper with its latency buffer (clipper-level specification)
  unitState      \* one algorithm object on its own (algorithm-level specification)

vars ==
  <<params, preInput, filters, controlComp, eq, styleComp, console, outStage, volume,
    meter, meterCoeffs, atomics, pc, inBuf, buffer, callLog, loaded, refreshed, stored,
    rtAllocs, dep, prepared, blocks, writes, prepares, secState, cvState, compState,
    clipState, unitState>>

\* the variables the pipeline specification never touches
aux == <<secState, cvState, compState, clipState, unitState>>

Channels == {0, 1}
\* samples per channel in one block
BlockSize == 2

\* no sample of the channel processed yet in this block
NoSample == <<>>

\* no algorithm object under test
UnitIdle == [kind |-> "none"]

Idle == [at |-> "idle", channel |-> 0, sample |-> 0]

MeterInit ==
  [inputPeakState |-> 0, outputPeakState |-> 0, outStageInputRMS |-> 0,
   outStageOutputRMS |-> 0, outStageGRSmooth |-> 0]

AtomicsInit ==
  [inputPeakLeft |-> 0, inputPeakRight |-> 0, outputPeakLeft |-> 0, outputPeakRight |-> 0,
   controlCompGRLeft |-> 0, controlCompGRRight |-> 0, styleCompGRLeft |-> 0,
   styleCompGRRight |-> 0, outStageGRLeft |-> 0, outStageGRRight |-> 0,
   outStageGRActiveLeft |-> FALSE, outStageGRActiveRight |-> FALSE]

DepInit == [sections |-> [c \in Channels |-> {}], meters |-> [c \in Channels |-> {}],
            out |-> [c \in Channels |-> {}]]

MainInit ==
  /\ params = DefaultParams
  /\ preInput = [c \in Channels |-> PreInputInit]
  /\ filters = [c \in Channels |-> FilterInit]
  /\ controlComp = [c \in Channels |-> ControlCompInit]
  /\ eq = [c \in Channels |-> EQInit]
  /\ styleComp = [c \in Channels |-> StyleCompInit]
  /\ console = [c \in Channels |-> ConsoleInit]
  /\ outStage = [c \in Channels |-> OutStageInit]
  /\ volume = [c \in Channels |-> VolumeInit]
  /\ meter = [c \in Channels |-> MeterInit]
  /\ meterCoeffs = [peakDecayCoeff |-> 0, outStageAttackCoeff |-> 0, outStageReleaseCoeff |-> 0]
  /\ atomics = AtomicsInit
  /\ pc = Idle
  /\ inBuf = [c \in Channels |-> NoSample]
  /\ buffer = [c \in Channels |-> NoSample]
  /\ callLog = <<>>
  /\ loaded = [c \in Channels |-> DefaultParams]
  /\ refreshed = {}
  /\ stored = {}
  /\ rtAllocs = 0
  /\ dep = DepInit
  /\ prepared = FALSE
  /\ blocks = 0
  /\ writes = 0
  /\ prepares = 0

(***************************************************************************)
(* Control thread: a parameter write (host automation, editor attachment)  *)
(* and the restore of a saved state.                                       *)
(***************************************************************************)
WriteParam(p, v) ==
  /\ writes < MaxWrites
  /\ v # params[p]
  /\ params' = [params EXCEPT ![p] = v]
  /\ writes' = writes + 1
  /\ UNCHANGED <<preInput, filters, controlComp, eq, styleComp, console, outStage, volume,
                 meter, meterCoeffs, atomics, pc, inBuf, buffer, callLog, loaded, refreshed,
                 stored, rtAllocs, dep, prepared, blocks, prepares, aux>>

setStateInformation(state) ==
  /\ writes < MaxWrites
  /\ state # params
  /\ params' = state
  /\ writes' = writes + 1
  /\ UNCHANGED <<preInput, filters, controlComp, eq, styleComp, console, outStage, volume,
                 meter, meterCoeffs, atomics, pc, inBuf, buffer, callLog, loaded, refreshed,
                 stored, rtAllocs, dep, prepared, blocks, prepares, aux>>

(***************************************************************************)
(* updateAllSections: one iteration of its channel loop.  Every parameter  *)
(* pointer is dereferenced inside the loop body, so the values p are the   *)
(* ones the atomics hold when the iteration for channel ch runs.           *)
(***************************************************************************)
UpdatePreInput(s, p) ==
  SetBypass(PreInputSetDrive(s, 0), p.preInputBypass > 500)

UpdateFilterSection(s, p, cv) ==
  LET s1 == SetHPFQOffset(SetHPF(s, p.hpfFreq + cv.hpfFreq), cv.hpfQ)
      s2 == SetLPFQOffset(SetLPF(s1, 24000000 + cv.lpfFreq), cv.lpfQ)
  IN  SetBypass(s2, p.filtersBypass > 500)

UpdateControlComp(s, p) ==
  SetBypass(SetThreshold(s, -10000), p.ctrlCompBypass > 500)

\* a faulty refresh that loads only the bypass switch of the EQ; the
\* coefficient property must tell it from UpdateEQ
UpdateEQBypassOnly(s, p, cv) == SetBypass(s, p.eqBypass > 500)

UpdateEQ(s, p, cv) ==
  LET s1 == SetBassShelfFreq(SetBassShelf(s, 0 + cv.eqBassGain), 6500000 + cv.eqBassFreq)
      s2 == SetTrebleShelfFreq(SetTrebleShelf(s1, 0 + cv.eqTrebleGain), 3500000 + cv.eqTrebleFreq)
      s3 == [s2 EXCEPT
               !.bell1 = SetBellWithVariation(8, 0, cv.eqBell1Freq, cv.eqBell1Gain, cv.eqBell1Q),
               !.bell2 = SetBellWithVariation(10, 0, cv.eqBell2Freq, cv.eqBell2Gain, cv.eqBell2Q)]
  IN  SetBypass(s3, p.eqBypass > 500)

UpdateStyleComp(s, p) ==
  SetBypass(SetMix(SetMakeup(SetCompIn(s, 0), 0), 100 * One), p.styleCompBypass > 500)

UpdateConsole(s, p, cv) ==
  SetBypass(ConsoleSetDrive(s, 0 + cv.consoleDrive), p.consoleBypass > 500)

UpdateOutStage(s, p) ==
  SetBypass(OutStageSetDrive(OutStageSetAlgorithm(s, p.outStageAlgo), 0), p.outStageBypass > 500)

UpdateVolume(s, p, cv) ==
  SetBypass(SetGain(s, p.outputGain + cv.outputGain), p.volumeBypass > 500)

\* heap objects the setters of one loop iteration create: four updateFilters
\* calls and four BellFilter::updateCoefficients calls
UpdateAllocs(ch) ==
  4 * UpdateFiltersAllocs(filters[ch]) + 4 * BellUpdateAllocs(eq[ch])

\* the assignments of one loop iteration, with the values p of the parameters
UpdateChannel(ch, p) ==
  LET cv == ChannelPreset(VariationIndex(p.channelVariationMode, p.channelPair, ch))
  IN  /\ preInput' = [preInput EXCEPT ![ch] = UpdatePreInput(@, p)]
      /\ filters' = [filters EXCEPT ![ch] = UpdateFilterSection(@, p, cv)]
      /\ controlComp' = [controlComp EXCEPT ![ch] = UpdateControlComp(@, p)]
      /\ eq' = [eq EXCEPT ![ch] = UpdateEQ(@, p, cv)]
      /\ styleComp' = [styleComp EXCEPT ![ch] = UpdateStyleComp(@, p)]
      /\ console' = [console EXCEPT ![ch] = UpdateConsole(@, p, cv)]
      /\ outStage' = [outStage EXCEPT ![ch] = UpdateOutStage(@, p)]
      /\ volume' = [volume EXCEPT ![ch] = UpdateVolume(@, p, cv)]
      /\ loaded' = [loaded EXCEPT ![ch] = p]

(***************************************************************************)
(* prepareToPlay (host thread, audio not running): setSampleRate on the    *)
(* eight sections of both channels, updateAllSections, meter ballistics.   *)
(***************************************************************************)
ExpCoeff(ms, sampleRate) == ExpSeries(-DivT(One * One, ms * sampleRate))

PrepareToPlay(sampleRate) ==
  /\ pc.at = "idle"
  /\ prepares < MaxPrepare
  /\ LET cvOf(ch) == ChannelPreset(VariationIndex(params.channelVariationMode,
                                                  params.channelPair, ch))
     IN
     /\ preInput' = [ch \in Channels |->
                       UpdatePreInput(PreInputSetSampleRate(preInput[ch], sampleRate), params)]
     /\ filters' = [ch \in Channels |->
                      UpdateFilterSection(FilterSetSampleRate(filters[ch], sampleRate),
                                          params, cvOf(ch))]
     /\ controlComp' = [ch \in Channels |->
                          UpdateControlComp(ControlCompSetSampleRate(controlComp[ch], sampleRate),
                                            params)]
     /\ eq' = [ch \in Channels |->
                 UpdateEQ(EQSetSampleRate(eq[ch], sampleRate), params, cvOf(ch))]
     /\ styleComp' = [ch \in Channels |->
                        UpdateStyleComp(StyleCompSetSampleRate(styleComp[ch], sampleRate), params)]
     /\ console' = [ch \in Channels |->
                      UpdateConsole(ConsoleSetSampleRate(console[ch], sampleRate),
                                    params, cvOf(ch))]
     /\ outStage' = [ch \in Channels |->
                       UpdateOutStage(OutStageSetSampleRate(outStage[ch], sampleRate), params)]
     /\ volume' = [ch \in Channels |->
                     UpdateVolume(BaseSetSampleRate(volume[ch], sampleRate), params, cvOf(ch))]
  /\ loaded' = [ch \in Channels |-> params]
  /\ meterCoeffs' = [peakDecayCoeff |-> ExpCoeff(200, sampleRate),
                     outStageAttackCoeff |-> ExpCoeff(10, sampleRate),
                     outStageReleaseCoeff |-> ExpCoeff(50, sampleRate)]
  /\ meter' = [ch \in Channels |-> MeterInit]
  /\ prepared' = TRUE
  /\ prepares' = prepares + 1
  /\ UNCHANGED <<params, atomics, pc, inBuf, buffer, callLog, refreshed, stored, rtAllocs,
                 dep, blocks, writes, aux>>

(***************************************************************************)
(* processBlock, stereo layout (two input and two output channels).        *)
(***************************************************************************)
\* entry of processBlock: the host hands over a buffer of BlockSize samples
BlockStart ==
  /\ pc.at = "idle"
  /\ prepared
  /\ blocks < MaxBlocks
  /\ pc' = [at |-> "refresh", channel |-> 0, sample |-> 0]
  /\ blocks' = blocks + 1
  /\ inBuf' = [c \in Channels |-> NoSample]
  /\ buffer' = [c \in Channels |-> NoSample]
  /\ stored' = {}
  /\ refreshed' = {}
  /\ callLog' = <<>>
  /\ UNCHANGED <<params, preInput, filters, controlComp, eq, styleComp, console, outStage,
                 volume, meter, meterCoeffs, atomics, loaded, rtAllocs, dep, prepared,
                 writes, prepares, aux>>

\* updateAllSections called from processBlock, iteration ch of its loop; after
\* the last iteration processBlock clears the RMS accumulators
Refresh(ch) ==
  /\ pc.at = "refresh"
  /\ pc.channel = ch
  /\ UpdateChannel(ch, params)
  /\ rtAllocs' = rtAllocs + UpdateAllocs(ch)
  /\ refreshed' = refreshed \cup {ch}
  /\ IF ch = 0
       THEN /\ pc' = [pc EXCEPT !.channel = 1]
            /\ meter' = meter
       ELSE /\ pc' = [at |-> "sample", channel |-> 0, sample |-> 0]
            /\ meter' = [c \in Channels |->
                           [meter[c] EXCEPT !.outStageInputRMS = 0, !.outStageOutputRMS = 0]]
  /\ UNCHANGED <<params, meterCoeffs, atomics, inBuf, buffer, callLog, stored, dep,
                 prepared, blocks, writes, prepares, aux>>

\* a faulty chain with EQ and Control-Comp exchanged; the order property must
\* tell it from SignalFlow
ReorderedFlow ==
  <<"preInput", "filters", "eq", "controlComp", "styleComp", "console", "outStage", "volume">>

\* the order of the process() calls in the sample loop
SignalFlow ==
  <<"preInput", "filters", "controlComp", "eq", "styleComp", "console", "outStage", "volume">>

\* sections whose processInternal is left uninterpreted
Uninterpreted == {"preInput", "filters", "controlComp", "eq", "styleComp", "outStage"}
Compressors == {"controlComp", "styleComp"}

\* a faulty indexing that runs both channels through the left instances; the
\* independence property must tell it from SectionOf
SharedSection(channel) == 0

\* index of the section instances and of the meter state used for a channel
SectionOf(channel) == channel
MeterOf(channel) == channel

SectionRec(name, i) ==
  CASE name = "preInput" -> preInput[i]
    [] name = "filters" -> filters[i]
    [] name = "controlComp" -> controlComp[i]
    [] name = "eq" -> eq[i]
    [] name = "styleComp" -> styleComp[i]
    [] name = "console" -> console[i]
    [] name = "outStage" -> outStage[i]
    [] name = "volume" -> volume[i]

\* processInternal: w gives the result of the uninterpreted algorithms
ProcessInternal(name, s, input, w) ==
  CASE name = "console" -> input
    [] name = "outStage" -> IF s.currentAlgorithm = 0
                              THEN DivT(input * s.driveLinear, One)
                              ELSE w[name]
    [] name = "volume" -> DivT(input * s.gainLinear, One)
    [] OTHER -> w[name]

SectionReset(name, s) ==
  CASE name = "preInput" -> PreInputReset(s)
    [] name = "filters" -> FilterReset(s)
    [] name = "controlComp" -> ControlCompReset(s)
    [] name = "eq" -> EQReset(s)
    [] name = "styleComp" -> StyleCompReset(s)
    [] name = "console" -> ConsoleReset(s)
    [] name = "outStage" -> OutStageReset(s)
    [] name = "volume" -> s

\* state a processInternal call leaves: the algorithm state is written and a
\* compressor's gain-reduction meter takes the reading g
AfterInternal(name, s, g) ==
  IF name = "volume" THEN s
  ELSE IF name \in Compressors THEN [s EXCEPT !.hasHistory = TRUE, !.gr = g[name]]
  ELSE [s EXCEPT !.hasHistory = TRUE]

\* the section record BypassableSection::process leaves behind
AfterProcess(name, s, b, g) ==
  LET s1 == IF b.reset THEN SectionReset(name, s) ELSE s
      s2 == [s1 EXCEPT !.bypassMix = b.mix]
  IN  IF b.internal THEN AfterInternal(name, s2, g) ELSE s2

\* the process() calls from position i of the chain on, each fed the output
\* of the one before
RECURSIVE RunChain(_, _, _, _)
RunChain(i, channel, signal, w) ==
  IF i > Len(SignalFlow) THEN <<>>
  ELSE LET name == SignalFlow[i]
           s == SectionRec(name, SectionOf(channel))
           b == BypassStep(s)
           out == BypassOut(b, signal, ProcessInternal(name, s, signal, w))
       IN  <<[section |-> name, input |-> signal, output |-> out, step |-> b]>>
             \o RunChain(i + 1, channel, out, w)

CallOf(trace, name) == trace[CHOOSE i \in 1..Len(trace) : trace[i].section = name]

\* peak detector: instant attack, exponential decay
PeakDetect(level, peakState, peakDecayCoeff) ==
  IF level > peakState THEN level ELSE DivT(peakState * peakDecayCoeff, One)

InputPeakAtomic(channel) == IF channel = 0 THEN "inputPeakLeft" ELSE "inputPeakRight"
OutputPeakAtomic(channel) == IF channel = 0 THEN "outputPeakLeft" ELSE "outputPeakRight"

\* one iteration of the sample loop for channel pc.channel: x is the sample
\* the buffer holds, w and g are the results of the uninterpreted algorithms
ProcessSample(x, w, g) ==
  /\ pc.at = "sample"
  /\ \E trace \in {RunChain(1, pc.channel, x, w)} :
     LET channel == pc.channel
         si == SectionOf(channel)
         mi == MeterOf(channel)
         inPeak == PeakDetect(Abs(x), meter[mi].inputPeakState, meterCoeffs.peakDecayCoeff)
         after(name) == AfterProcess(name, SectionRec(name, si), CallOf(trace, name).step, g)
         os == CallOf(trace, "outStage")
         signal == trace[Len(trace)].output
         outPeak == PeakDetect(Abs(signal), meter[mi].outputPeakState,
                               meterCoeffs.peakDecayCoeff)
     IN
     /\ preInput' = [preInput EXCEPT ![si] = after("preInput")]
     /\ filters' = [filters EXCEPT ![si] = after("filters")]
     /\ controlComp' = [controlComp EXCEPT ![si] = after("controlComp")]
     /\ eq' = [eq EXCEPT ![si] = after("eq")]
     /\ styleComp' = [styleComp EXCEPT ![si] = after("styleComp")]
     /\ console' = [console EXCEPT ![si] = after("console")]
     /\ outStage' = [outStage EXCEPT ![si] = after("outStage")]
     /\ volume' = [volume EXCEPT ![si] = after("volume")]
     /\ meter' = [meter EXCEPT ![mi] =
                    [@ EXCEPT !.inputPeakState = inPeak,
                              !.outputPeakState = outPeak,
                              !.outStageInputRMS = @ + DivT(os.input * os.input, One),
                              !.outStageOutputRMS = @ + DivT(os.output * os.output, One)]]
     /\ atomics' = [atomics EXCEPT ![InputPeakAtomic(channel)] = inPeak,
                                   ![OutputPeakAtomic(channel)] = outPeak]
     /\ stored' = stored \cup {InputPeakAtomic(channel), OutputPeakAtomic(channel)}
     /\ inBuf' = [inBuf EXCEPT ![channel] = <<x>>]
     /\ buffer' = [buffer EXCEPT ![channel] = <<signal>>]
     /\ callLog' = [i \in 1..Len(trace) |-> trace[i].section]
     /\ dep' = [dep EXCEPT !.sections[si] = @ \cup {channel},
                           !.meters[mi] = @ \cup {channel} \cup dep.sections[si],
                           !.out[channel] = @ \cup {channel} \cup dep.sections[si]]
     /\ pc' = IF pc.sample + 1 < BlockSize
                THEN [pc EXCEPT !.sample = @ + 1]
                ELSE [pc EXCEPT !.at = "grStore"]
  /\ UNCHANGED <<params, meterCoeffs, loaded, refreshed, rtAllocs, prepared, blocks, writes,
                 prepares, aux>>

\* after the last sample of a channel: the compressor meters are published
StoreCompGR ==
  /\ pc.at = "grStore"
  /\ LET channel == pc.channel
         cc == IF channel = 0 THEN "controlCompGRLeft" ELSE "controlCompGRRight"
         sc == IF channel = 0 THEN "styleCompGRLeft" ELSE "styleCompGRRight"
     IN  /\ atomics' = [atomics EXCEPT ![cc] = controlComp[channel].gr,
                                       ![sc] = styleComp[channel].gr]
         /\ stored' = stored \cup {cc, sc}
         /\ dep' = [dep EXCEPT !.meters[channel] = @ \cup dep.sections[channel]]
         /\ pc' = IF channel = 0
                    THEN [at |-> "sample", channel |-> 1, sample |-> 0]
                    ELSE [at |-> "outStageGR", channel |-> 0, sample |-> 0]
  /\ UNCHANGED <<params, preInput, filters, controlComp, eq, styleComp, console, outStage,
                 volume, meter, meterCoeffs, inBuf, buffer, callLog, loaded, refreshed,
                 rtAllocs, prepared, blocks, writes, prepares, aux>>

\* grDB < -0.2 dB, on the accumulated squares: 10^(-0.2/10) = 0.955
OutStageTarget(m) ==
  IF m.outStageOutputRMS * One < m.outStageInputRMS * 955 THEN One ELSE 0

OutStageSmooth(m) ==
  LET target == OutStageTarget(m)
      coeff == IF target > m.outStageGRSmooth
                 THEN meterCoeffs.outStageAttackCoeff
                 ELSE meterCoeffs.outStageReleaseCoeff
  IN  m.outStageGRSmooth + DivT((target - m.outStageGRSmooth) * (One - coeff), One)

\* end of processBlock: Out-Stage gain-reduction detection for both channels
OutStageGRDetect ==
  /\ pc.at = "outStageGR"
  /\ meter' = [c \in Channels |-> [meter[c] EXCEPT !.outStageGRSmooth = OutStageSmooth(meter[c])]]
  /\ atomics' = [atomics EXCEPT !.outStageGRActiveLeft = (OutStageSmooth(meter[0]) > 500),
                                !.outStageGRActiveRight = (OutStageSmooth(meter[1]) > 500)]
  /\ stored' = stored \cup {"outStageGRActiveLeft", "outStageGRActiveRight"}
  /\ pc' = Idle
  /\ inBuf' = [c \in Channels |-> NoSample]
  /\ buffer' = [c \in Channels |-> NoSample]
  /\ UNCHANGED <<params, preInput, filters, controlComp, eq, styleComp, console, outStage,
                 volume, meterCoeffs, callLog, loaded, refreshed, rtAllocs, dep,
                 prepared, blocks, writes, prepares, aux>>

Next ==
  \/ \E p \in ParamNames : \E v \in ParamDomain[p] : WriteParam(p, v)
  \/ \E state \in SavedStates : setStateInformation(state)
  \/ \E sampleRate \in SampleRates : PrepareToPlay(sampleRate)
  \/ BlockStart
  \/ \E ch \in Channels : Refresh(ch)
  \/ \E x \in SampleVals : \E w \in [Uninterpreted -> WetVals] :
       \E g \in [Compressors -> GRVals] : ProcessSample(x, w, g)
  \/ StoreCompGR
  \/ OutStageGRDetect


(***************************************************************************)
(* Section-level specification: one BypassableSection driven directly by   *)
(* its public interface, fed a constant input.  The section is a           *)
(* VolumeSection (processInternal = input * gainLinear) or a               *)
(* LowDynamicSection, whose setSampleRate override does not call the base  *)
(* class and whose processInternal is uninterpreted unless ratio is 0.     *)
(***************************************************************************)
MaxCalls == 3
MaxToggles == 4
SectionRates == {-200, 0, 100, 200}
\* arguments of setGain (dB) and setRatio, the last one outside the
\* documented ranges -60..+12 dB and -10..+10
ConfigArgs == {0, 6000, 18000}
SectionKinds == {"volume", "lowDynamic"}
\* the constant input sample, 1.0
TestInput == One

LowDynamicInit ==
  BaseFields @@ [sampleRate |-> 44100, ratio |-> 0, smoothedGain |-> One, currentGR |-> 0]

SecInit(kind) ==
  [kind |-> kind,
   s |-> IF kind = "volume" THEN VolumeInit ELSE LowDynamicInit,
   prevOut |-> NoSample, out |-> NoSample, wet |-> NoSample,
   rate |-> NoSample, before |-> NoSample, ran |-> FALSE, gainBefore |-> NoSample,
   mixBefore |-> NoSample, targetAt |-> FALSE, algo |-> "fresh",
   calls |-> 0, toggles |-> 0]

\* LowDynamicSection::reset: resetState()
LowDynamicReset(s) == [s EXCEPT !.smoothedGain = One, !.currentGR = 0]

\* LowDynamicSection::setSampleRate stores its own sampleRate, clears the
\* detector state and never calls BypassableSection::setSampleRate
LowDynamicSetSampleRate(s, sr) == [LowDynamicReset(s) EXCEPT !.sampleRate = sr]

\* a faulty processInternal without the test of the ratio; the unity property
\* must tell it from LowDynamicInternal
LowDynamicAlwaysDetects(s, w, g) == [s EXCEPT !.smoothedGain = w, !.currentGR = g]

\* the state LowDynamicSection::processInternal leaves for the input 1.0 at
\* full mix: unity below |ratio| 0.01, else the envelope follower's gain w
\* and its reading g in dB
LowDynamicInternal(s, w, g) ==
  IF Abs(s.ratio) < 10 THEN [s EXCEPT !.smoothedGain = One, !.currentGR = 0]
  ELSE [s EXCEPT !.smoothedGain = w, !.currentGR = g]

SetRatio(s, ratioValue) == [s EXCEPT !.ratio = ratioValue]

SecWet(kind, s, input, w) ==
  IF kind = "volume" THEN DivT(input * s.gainLinear, One)
  ELSE IF Abs(s.ratio) < 10 THEN input
  ELSE w

OtherUnchanged == UNCHANGED <<clipState, unitState, params, preInput, filters, controlComp, eq, styleComp, console,
                              outStage, volume, meter, meterCoeffs, atomics, pc, inBuf, buffer,
                              callLog, loaded, refreshed, stored, rtAllocs, dep, prepared,
                              blocks, writes, prepares>>

MainUnchanged == UNCHANGED <<params, preInput, filters, controlComp, eq, styleComp, console,
                             outStage, volume, meter, meterCoeffs, atomics, pc, inBuf, buffer,
                             callLog, loaded, refreshed, stored, rtAllocs, dep, prepared,
                             blocks, writes, prepares>>

SecSetSampleRate(sampleRate) ==
  /\ secState.calls = 0
  /\ secState' = [secState EXCEPT !.s =
                    IF secState.kind = "volume"
                      THEN BaseSetSampleRate(@, sampleRate)
                      ELSE LowDynamicSetSampleRate(@, sampleRate),
                                   !.rate = <<sampleRate>>,
                                   !.before = <<secState.s.fadeCoeff>>]
  /\ UNCHANGED <<cvState, compState>>
  /\ OtherUnchanged

\* setGain (arg) on the VolumeSection, setRatio (arg) on the LowDynamicSection
SecConfigure(arg) ==
  /\ secState' = [secState EXCEPT !.s =
                    IF secState.kind = "volume" THEN SetGain(@, arg) ELSE SetRatio(@, arg),
                                   !.prevOut = NoSample,
                                   !.out = NoSample]
  /\ secState'.s # secState.s
  /\ UNCHANGED <<cvState, compState>>
  /\ OtherUnchanged

SecSetBypass(shouldBypass) ==
  /\ secState.toggles < MaxToggles
  /\ shouldBypass # secState.s.targetBypass
  /\ secState' = [secState EXCEPT !.s = SetBypass(@, shouldBypass), !.toggles = @ + 1]
  /\ UNCHANGED <<cvState, compState>>
  /\ OtherUnchanged

\* one process(TestInput) call; w and g are the readings of the
\* Low-Dynamic envelope follower.  The calls are counted up to MaxCalls, and
\* a section whose crossfade coefficient is outside [0, 1] gets no more than
\* that many.  algo follows the algorithm state: "used" once processInternal
\* wrote it, "skipped" when a bypassed call then went by without reset(),
\* "resumed" when processInternal ran again on such a state.
SecProcess(w, g) ==
  /\ \/ secState.calls < MaxCalls
     \/ (secState.s.fadeCoeff >= 0 /\ secState.s.fadeCoeff <= One)
  /\ LET s == secState.s
         low == secState.kind = "lowDynamic"
         b == BypassStep(s)
         wet == SecWet(secState.kind, s, TestInput, w)
         s1 == IF low /\ b.reset THEN LowDynamicReset(s) ELSE s
         s2 == IF low /\ b.internal THEN LowDynamicInternal(s1, w, g) ELSE s1
     IN  secState' = [secState EXCEPT !.s = [s2 EXCEPT !.bypassMix = b.mix],
                                      !.prevOut = secState.out,
                                      !.out = <<BypassOut(b, TestInput, wet)>>,
                                      !.wet = <<wet>>,
                                      !.ran = b.internal,
                                      !.gainBefore = IF low THEN <<s.smoothedGain>> ELSE NoSample,
                                      !.mixBefore = <<s.bypassMix>>,
                                      !.targetAt = s.targetBypass,
                                      !.algo = IF b.reset THEN "fresh"
                                               ELSE IF b.internal
                                                 THEN (IF @ \in {"skipped", "resumed"}
                                                         THEN "resumed" ELSE "used")
                                               ELSE IF @ = "used" THEN "skipped" ELSE @,
                                      !.calls = Min(@ + 1, MaxCalls)]
  /\ UNCHANGED <<cvState, compState>>
  /\ OtherUnchanged

(***************************************************************************)
(* Channel-variation selection as a function of its inputs: the raw mode   *)
(* and pair values (any integer the parameter atomics may hold after the   *)
(* static_cast) and the channel index.                                     *)
(***************************************************************************)
ModeVals == -1..3
PairVals == -1..25

CVIdle == [mode |-> 0, pair |-> 0, ch |-> 0, done |-> FALSE, variationIndex |-> -1,
           cv |-> NeutralPreset]

\* lines 403-424 of updateAllSections for the inputs held in cvState
SelectVariation ==
  /\ ~cvState.done
  /\ LET variationIndex == VariationIndex(cvState.mode, cvState.pair, cvState.ch)
     IN  cvState' = [cvState EXCEPT !.done = TRUE,
                                    !.variationIndex = variationIndex,
                                    !.cv = ChannelPreset(variationIndex)]
  /\ UNCHANGED <<secState, compState>>
  /\ OtherUnchanged

(***************************************************************************)
(* Compressor-level specification: the Control-Comp compressor             *)
(* (DigitalVersatileCompressor, A/R mode Normal), the Style-Comp           *)
(* compressor (CL1BCompressor, algorithm Warm) and the peak detectors of   *)
(* one channel with the atomics they are published to.  The               *)
(* DigitalVersatileCompressor is kept in the log domain (thousandths of a  *)
(* dB), where its gain computer and ballistics are sums: gain * attack is  *)
(* gainDB + attackDB.  The detector level (rms) and the CL1B table lookup  *)
(* T13 are inputs of each sample.  A block is one sample long here, so    *)
(* the gain-reduction meters are published after every sample.             *)
(***************************************************************************)
MaxCompSamples == 3
MaxCompConfig == 2
CompRates == {100, 200}
ThresholdVals == {-30000, -10000, -100}
RmsDBVals == {-60000, 6000}
T13Vals == {0, 1000}

\* exp(z / 1000) * 1000 for z <= 0
RECURSIVE ExpNeg(_)
ExpNeg(z) ==
  IF z < -One THEN LET h == ExpNeg(DivT(z, 2)) IN DivT(h * h, One) ELSE ExpSeries(z)

\* juce::Decibels::gainToDecibels, gain and result in thousandths
RECURSIVE GainToDecibels(_)
GainToDecibels(gain) ==
  IF gain <= 0 THEN -100 * One
  ELSE IF gain >= 2 * One THEN 6021 + GainToDecibels(gain \div 2)
  ELSE IF gain < One THEN Max(-100 * One, GainToDecibels(gain * 2) - 6021)
  ELSE DivT(6021 * (gain - One), One)

\* DigitalVersatileCompressor: reset()
DvcReset(d) == [d EXCEPT !.gainDB = 0, !.seekGainDB = 0, !.grMeterDB = 0]

\* setSampleRate: gr_meter_decay = exp(1 / sampleRate), 8.686 dB / sampleRate
DvcSetSampleRate(d, sampleRate) ==
  [d EXCEPT !.currentSampleRate = sampleRate, !.decayDB = DivT(8686, sampleRate)]

\* setParameters with the Normal preset: attack 30 ms, release 100 ms, ratio 2.5:1
DvcSetParameters(d, thresholdDB) ==
  [d EXCEPT !.threshDB = thresholdDB,
            !.attackDB = DivT(thresholdDB * One, 30 * d.currentSampleRate),
            !.releaseDB = DivT(thresholdDB * One, 100 * d.currentSampleRate)]

\* a faulty meter update without the clamp to 1.0; the range property must
\* tell it from GrMeterUpdate
GrMeterUnclamped(grMeterDB, gainDB, decayDB) ==
  IF gainDB < grMeterDB THEN gainDB ELSE grMeterDB + decayDB

\* the gain-reduction meter update at the end of process()
GrMeterUpdate(grMeterDB, gainDB, decayDB) ==
  IF gainDB < grMeterDB THEN gainDB
  ELSE IF grMeterDB + decayDB > 0 THEN 0 ELSE grMeterDB + decayDB

\* a faulty ballistics stage without the max() / min() against seekGain; the
\* ballistics property must tell it from DvcProcess
DvcProcessOvershoot(d, rmsDB) ==
  LET seekGainDB == IF rmsDB > d.threshDB
                      THEN DivT((d.threshDB - rmsDB) * 600, One)
                      ELSE 0
      gainDB == IF d.gainDB > seekGainDB THEN d.gainDB + d.attackDB
                ELSE d.gainDB - d.releaseDB
  IN  [d EXCEPT !.gainDB = gainDB, !.seekGainDB = seekGainDB,
                !.grMeterDB = GrMeterUpdate(d.grMeterDB, gainDB, d.decayDB)]

\* process(): gain computer, ballistics, meter
DvcProcess(d, rmsDB) ==
  LET seekGainDB == IF rmsDB > d.threshDB
                      THEN DivT((d.threshDB - rmsDB) * 600, One)
                      ELSE 0
      gainDB == IF d.gainDB > seekGainDB
                  THEN Max(d.gainDB + d.attackDB, seekGainDB)
                  ELSE Min(d.gainDB - d.releaseDB, seekGainDB)
  IN  [d EXCEPT !.gainDB = gainDB, !.seekGainDB = seekGainDB,
                !.grMeterDB = GrMeterUpdate(d.grMeterDB, gainDB, d.decayDB)]

DvcInit ==
  DvcReset([currentSampleRate |-> 44100, decayDB |-> 0, threshDB |-> 0, attackDB |-> 0,
            releaseDB |-> 0, gainDB |-> 0, seekGainDB |-> 0, grMeterDB |-> 0])

\* CL1BCompressor time constants in microseconds
Lpf1AttackUs == 1324
Lpf1ReleaseUs == 1783
Lpf2AttackUs == 28011
Lpf2ReleaseUs == 26260

Cl1bCoeff(us, sampleRate) == ExpNeg(-DivT(One * One * One, sampleRate * us))

Cl1bSetSampleRate(c, sampleRate) ==
  [c EXCEPT !.lpf1_attack = Cl1bCoeff(Lpf1AttackUs, sampleRate),
            !.lpf1_release = Cl1bCoeff(Lpf1ReleaseUs, sampleRate),
            !.lpf2_attack = Cl1bCoeff(Lpf2AttackUs, sampleRate),
            !.lpf2_release = Cl1bCoeff(Lpf2ReleaseUs, sampleRate)]

Cl1bReset(c) == [c EXCEPT !.lpf1_state = 0, !.lpf2_state = 0]

Cl1bInit ==
  Cl1bSetSampleRate([lpf1_state |-> 0, lpf2_state |-> 0, lpf1_attack |-> 0,
                     lpf1_release |-> 0, lpf2_attack |-> 0, lpf2_release |-> 0], 44100)

\* the two one-pole filters of process() fed the table value T13
Cl1bProcess(c, T13) ==
  LET k1 == IF T13 > c.lpf1_state THEN c.lpf1_attack ELSE c.lpf1_release
      k2 == IF T13 > c.lpf2_state THEN c.lpf2_attack ELSE c.lpf2_release
  IN  [c EXCEPT !.lpf1_state = T13 + DivT((c.lpf1_state - T13) * k1, One),
                !.lpf2_state = T13 + DivT((c.lpf2_state - T13) * k2, One)]

\* gain_reduction of getGainReductionDB, in thousandths; inv_gr in millionths
Cl1bGainReduction(c) ==
  LET inv_gr == DivT(c.lpf1_state * 299820, One) + DivT(c.lpf2_state * 79904, One)
  IN  DivT(2990 * One, Jlimit(-999999, 999999, inv_gr + 2990))

Cl1bGetGainReductionDB(c) == GainToDecibels(Cl1bGainReduction(c))

CompSampleVals == {-1000, 500}

CompInit ==
  [prepared |-> FALSE,
   ctrl |-> BaseFields, style |-> BaseFields,
   dvc |-> DvcInit, cl1b |-> Cl1bInit,
   inputPeakState |-> 0, outputPeakState |-> 0, peakDecayCoeff |-> 0,
   pub |-> [inputPeak |-> 0, outputPeak |-> 0, controlCompGR |-> 0, styleCompGR |-> 0],
   last |-> "construct", samples |-> 0, config |-> 0]

\* prepareToPlay as far as the compressors and the peak detectors go
CompPrepareToPlay(sampleRate) ==
  /\ compState.config < MaxCompConfig
  /\ compState' =
       [compState EXCEPT
          !.prepared = TRUE,
          !.ctrl = BaseSetSampleRate(@, sampleRate),
          !.style = BaseSetSampleRate(@, sampleRate),
          !.dvc = DvcSetParameters(DvcSetSampleRate(@, sampleRate),
                                   IF compState.prepared THEN @.threshDB ELSE -10000),
          !.cl1b = Cl1bSetSampleRate(@, sampleRate),
          !.peakDecayCoeff = ExpCoeff(200, sampleRate),
          !.inputPeakState = 0,
          !.outputPeakState = 0,
          !.last = "prepareToPlay",
          !.config = @ + 1]
  /\ UNCHANGED <<secState, cvState>>
  /\ OtherUnchanged

\* ControlCompSection::setThreshold reached from a parameter refresh
CompSetThreshold(dB) ==
  /\ compState.prepared
  /\ compState.config < MaxCompConfig
  /\ compState' = [compState EXCEPT !.dvc = DvcSetParameters(@, Jlimit(-30000, -100, dB)),
                                    !.last = "setThreshold",
                                    !.config = @ + 1]
  /\ compState'.dvc # compState.dvc
  /\ UNCHANGED <<secState, cvState>>
  /\ OtherUnchanged

\* setBypass of the two compressor sections reached from a parameter refresh
CompSetBypass(ctrlBypass, styleBypass) ==
  /\ compState.config < MaxCompConfig
  /\ <<ctrlBypass, styleBypass>> # <<compState.ctrl.targetBypass, compState.style.targetBypass>>
  /\ compState' = [compState EXCEPT !.ctrl = SetBypass(@, ctrlBypass),
                                    !.style = SetBypass(@, styleBypass),
                                    !.last = "setBypass",
                                    !.config = @ + 1]
  /\ UNCHANGED <<secState, cvState>>
  /\ OtherUnchanged

\* processBlock with a buffer of one sample: x is the input sample, y the
\* sample that leaves the chain, rmsDB and T13 the detector readings of the
\* two compressors; the block ends with the stores of getGainReductionDB
CompSample(x, y, rmsDB, T13) ==
  /\ compState.prepared
  /\ compState.samples < MaxCompSamples
  /\ LET bc == BypassStep(compState.ctrl)
         bs == BypassStep(compState.style)
         d1 == IF bc.reset THEN DvcReset(compState.dvc) ELSE compState.dvc
         c1 == IF bs.reset THEN Cl1bReset(compState.cl1b) ELSE compState.cl1b
         d2 == IF bc.internal THEN DvcProcess(d1, rmsDB) ELSE d1
         c2 == IF bs.internal THEN Cl1bProcess(c1, T13) ELSE c1
         inPeak == PeakDetect(Abs(x), compState.inputPeakState, compState.peakDecayCoeff)
         outPeak == PeakDetect(Abs(y), compState.outputPeakState, compState.peakDecayCoeff)
     IN  compState' =
           [compState EXCEPT
              !.ctrl.bypassMix = bc.mix,
              !.style.bypassMix = bs.mix,
              !.dvc = d2,
              !.cl1b = c2,
              !.inputPeakState = inPeak,
              !.outputPeakState = outPeak,
              !.pub = [inputPeak |-> inPeak, outputPeak |-> outPeak,
                       controlCompGR |-> d2.grMeterDB,
                       styleCompGR |-> Cl1bGetGainReductionDB(c2)],
              !.last = "processBlock",
              !.samples = @ + 1]
  /\ UNCHANGED <<secState, cvState>>
  /\ OtherUnchanged

(***************************************************************************)
(* The specifications                                                      *)
(***************************************************************************)
(***************************************************************************)
(* FinalClip / ClipSoftly / ToTape8: the latency buffer                    *)
(***************************************************************************)
\* double intermediate[16]
IntermediateLen == 16
MaxClipCalls == 3
ClipRates == {22050, 44100, 96000, 705600, 768000}
ClipVals == {-2000, 500, 2000}

ClipInit ==
  [currentSampleRate |-> 44100, spacing |-> 1, lastSample |-> 0,
   intermediate |-> [i \in 0 .. IntermediateLen - 1 |-> 0],
   wasPosClip |-> FALSE, wasNegClip |-> FALSE,
   written |-> NoSample, out |-> NoSample, calls |-> 0]

ClipSetSampleRate(sampleRate) ==
  /\ clipState' = [clipState EXCEPT !.currentSampleRate = sampleRate,
                                    !.spacing = Jlimit(1, 16, sampleRate \div 44100)]
  /\ UNCHANGED <<secState, cvState, compState, unitState>>
  /\ MainUnchanged

\* One FinalClip::process call.  A store to intermediate[spacing] with spacing
\* outside the array is undefined: the value the shift loop reads back and the
\* two flags declared after the array are then any value.
ClipProcess(input) ==
  /\ clipState.calls < MaxClipCalls
  /\ LET c == clipState
         ls0 == c.lastSample
         x0 == Jlimit(-4000, 4000, input)
         x1 == IF x0 - ls0 > 618 THEN ls0 + 618
               ELSE IF x0 - ls0 < -618 THEN ls0 - 618 ELSE x0
         ls1 == IF c.wasPosClip
                  THEN IF x1 < ls0 THEN One + DivT(x1 * 382, One)
                                   ELSE 618 + DivT(ls0 * 618, One)
                  ELSE ls0
         pos == x1 > 1618
         x2 == IF pos THEN One + DivT(ls1 * 382, One) ELSE x1
         ls2 == IF c.wasNegClip
                  THEN IF x2 > ls1 THEN -One + DivT(x2 * 382, One)
                                   ELSE -618 + DivT(ls1 * 618, One)
                  ELSE ls1
         neg == x2 < -1618
         x3 == IF neg THEN -One + DivT(ls2 * 382, One) ELSE x2
         inside == c.spacing \in 0 .. IntermediateLen - 1
     IN \E v \in (IF inside THEN {x3} ELSE {x3} \cup ClipVals) :
        \E p \in (IF inside THEN {pos} ELSE BOOLEAN) :
        \E n \in (IF inside THEN {neg} ELSE BOOLEAN) :
          clipState' = [c EXCEPT
            !.intermediate = [i \in 0 .. IntermediateLen - 1 |->
                                IF i <= c.spacing THEN v ELSE c.intermediate[i]],
            !.lastSample = v,
            !.wasPosClip = p, !.wasNegClip = n,
            !.written = <<c.spacing>>, !.out = <<ls2>>,
            !.calls = @ + 1]
  /\ UNCHANGED <<secState, cvState, compState, unitState>>
  /\ MainUnchanged

(***************************************************************************)
(* Algorithm objects on their own.  unitState holds one object; its kind   *)
(* field says which class it is.                                           *)
(***************************************************************************)
UnitUnchanged ==
  /\ UNCHANGED <<secState, cvState, compState, clipState>>
  /\ MainUnchanged

MaxUnitCalls == 3

(***************************************************************************)
(* Channel8Console.  iirAmount and localIirAmount in millionths,           *)
(* threshold in units of 1e-8.                                             *)
(***************************************************************************)
\* uint32_t as a bit vector, bit 0 the least significant; n < 2^31
ToBits(n) == [i \in 0 .. 31 |-> i < 31 /\ (n \div 2 ^ i) % 2 = 1]
\* fpd ^= fpd << 13; fpd ^= fpd >> 17; fpd ^= fpd << 5;
Xorshift(fpd) ==
  LET ShiftLeft(b, k) == [i \in 0 .. 31 |-> i >= k /\ b[i - k]]
      ShiftRight(b, k) == [i \in 0 .. 31 |-> i + k <= 31 /\ b[i + k]]
      BitXor(x, y) == [i \in 0 .. 31 |-> x[i] # y[i]]
      a == BitXor(fpd, ShiftLeft(fpd, 13))
      b == BitXor(a, ShiftRight(a, 17))
  IN BitXor(b, ShiftLeft(b, 5))

Neve == 0
API == 1
SSL == 2
ConsoleTypes == {Neve, API, SSL}
Channel8Rates == {44100, 88200, 96000}

\* the two constants setConsoleType assigns per type
Channel8Profile ==
  [t \in ConsoleTypes |->
     CASE t = Neve -> [iirAmount |-> 5832, threshold |-> 33362176]
       [] t = API  -> [iirAmount |-> 4096, threshold |-> 59969536]
       [] t = SSL  -> [iirAmount |-> 4913, threshold |-> 84934656]]

\* localIirAmount = iirAmount / (sampleRate / 44100.0)
Channel8Scale(iirAmount, sampleRate) == DivT(iirAmount * 44100, sampleRate)

SetConsoleType(c, type) ==
  [c EXCEPT !.iirAmount = Channel8Profile[type].iirAmount,
            !.threshold = Channel8Profile[type].threshold,
            !.currentType = type]

\* the constructor: member initialisers, reset(), setSampleRate(44100.0),
\* setConsoleType(SSL)
Channel8Init ==
  [kind |-> "channel8",
   iirAmount |-> 4913, threshold |-> 84934656, currentType |-> SSL,
   currentSampleRate |-> 44100, localIirAmount |-> Channel8Scale(4913, 44100),
   flip |-> FALSE, fpd |-> ToBits(1),
   used |-> NoSample, calls |-> 0]

Channel8SetConsoleType(type) ==
  /\ unitState.kind = "channel8"
  /\ unitState' = [SetConsoleType(unitState, type) EXCEPT !.used = NoSample]
  /\ UnitUnchanged

Channel8SetSampleRate(sampleRate) ==
  /\ unitState.kind = "channel8"
  /\ unitState' = [unitState EXCEPT
       !.used = NoSample,
       !.currentSampleRate = sampleRate,
       !.localIirAmount = Channel8Scale(unitState.iirAmount, sampleRate)]
  /\ UnitUnchanged

\* One process call: the highpass reads localIirAmount, the slew limiter reads
\* threshold, the filter bank alternates, the dither advances fpd.  Sample values are not part of the
\* state; used records the two constants the last call since the last
\* configuration worked with.
Channel8Process ==
  /\ unitState.kind = "channel8"
  /\ unitState.calls < MaxUnitCalls
  /\ unitState' = [unitState EXCEPT
       !.used = <<unitState.localIirAmount, unitState.threshold>>,
       !.flip = ~@,
       !.fpd = Xorshift(@),
       !.calls = @ + 1]
  /\ UnitUnchanged

(***************************************************************************)
(* LowDynamicSection::processInternal with its detectors.  Levels, gains   *)
(* and coefficients in thousandths, dB in thousandths of a dB, rmsState    *)
(* (a squared level) in millionths.                                        *)
(***************************************************************************)
\* a * m / d rounded towards zero, for m >= 0 and d > 0, without forming a * m
MulDiv(a, m, d) ==
  LET n == Abs(a)
      q == (n \div d) * m + ((n % d) * m) \div d
  IN  IF a < 0 THEN -q ELSE q

\* warmupSamplesRemaining = 100 in resetState
WarmupSamples == 100
MaxLowCalls == 104
\* the input may change from sample to sample this long, then it holds
MaxLowVaried == 3
MaxLowResets == 2
LowRates == {1000}
LowRatios == {-10000, 0, 10000}
LowVals == {0, 1, 200}

\* exp(-1 / (seconds * sampleRate)) for a time constant given in microseconds
LowCoeff(us, sampleRate) == ExpNeg(-DivT(DivT(One * One * One, us), sampleRate))

\* 20 * log10(max(level, 1e-6)); a level below the resolution reads -120 dB
LevelDB(level) == IF level <= 0 THEN -120 * One ELSE GainToDecibels(level)

LowUnitInit ==
  [kind |-> "lowDynamic",
   sampleRate |-> 44100, threshold |-> -20 * One, ratio |-> 0, fastMode |-> FALSE,
   mixAmount |-> One,
   rmsState |-> 0, smoothedGain |-> One, currentGR |-> 0, peakHold |-> 0,
   peakHoldDecay |-> 0, warmupSamplesRemaining |-> 0,
   rmsCoeff |-> 0, attackCoeff |-> 0, releaseCoeff |-> 0,
   lifterAttackCoeff |-> 0, lifterReleaseCoeff |-> 0,
   ran |-> FALSE, instantDB |-> 0, targetGainDB |-> 0, warmBefore |-> 0,
   sinceCold |-> 0, last |-> NoSample, out |-> NoSample, resets |-> 0]

UpdateTimingCoefficients(u) ==
  IF u.sampleRate <= 0 THEN u
  ELSE [u EXCEPT
    !.rmsCoeff = LowCoeff(20000, u.sampleRate),
    !.peakHoldDecay = LowCoeff(50000, u.sampleRate),
    !.attackCoeff = LowCoeff(IF u.fastMode THEN 500 ELSE 15000, u.sampleRate),
    !.releaseCoeff = LowCoeff(IF u.fastMode THEN 60000 ELSE 100000, u.sampleRate),
    !.lifterAttackCoeff = LowCoeff(500, u.sampleRate),
    !.lifterReleaseCoeff = LowCoeff(IF u.fastMode THEN 60000 ELSE 15000, u.sampleRate)]

ResetState(u) ==
  [u EXCEPT !.rmsState = 0, !.smoothedGain = One, !.currentGR = 0, !.peakHold = 0,
            !.warmupSamplesRemaining = WarmupSamples,
            !.sinceCold = 0, !.ran = FALSE, !.last = NoSample]

\* a faulty level reading taken from the smoothed RMS detector; the gating
\* property must tell it from InstantDB
DetectorDB(u, input) == LevelDB(u.rmsState \div One) \div 2

\* instantDB, the level STEP 2 compares with the threshold and measures the
\* distance below the threshold from
InstantDB(u, input) == LevelDB(Abs(input))

\* STEP 2 of processInternal: the target gain in dB
TargetGainDB(u, input) ==
  LET instantDB == InstantDB(u, input)
      dbBelowThreshold == Max(u.threshold - instantDB, 0)
      normalizedRatio == DivT(Abs(u.ratio), 10)
      slope == 3 * DivT(normalizedRatio * normalizedRatio, One)
      liftAmount == DivT(u.ratio * 75, One)
      raw == IF u.ratio < 0 THEN Max(-MulDiv(dbBelowThreshold, slope, One), -96 * One)
             ELSE IF u.ratio > 0 THEN MulDiv(dbBelowThreshold, liftAmount, One)
             ELSE 0
      kneeRatio == DivT(dbBelowThreshold * One, 500)
  IN  IF instantDB < u.threshold
        THEN IF dbBelowThreshold < 500
               THEN MulDiv(raw, DivT(kneeRatio * kneeRatio, One), One)
               ELSE raw
        ELSE 0

\* processInternal (input)
LowProcessInternal(u, input) ==
  IF Abs(u.ratio) < 10
    THEN [u EXCEPT !.smoothedGain = One, !.currentGR = 0, !.ran = FALSE,
                   !.out = <<input>>]
  ELSE
    LET inputSquared == input * input
        peak == IF Abs(input) > u.peakHold THEN Abs(input)
                ELSE Abs(input) + MulDiv(u.peakHold - Abs(input), u.peakHoldDecay, One)
        usePeak == u.fastMode /\ u.ratio < 0
        rms == MulDiv(u.rmsState, u.rmsCoeff, One) + MulDiv(inputSquared, One - u.rmsCoeff, One)
        \* detectorLevel < 1e-6f
        detectorZero == IF usePeak THEN peak = 0 ELSE rms = 0
        targetGainDB == TargetGainDB(u, input)
        target == DbToLinear(targetGainDB)
        isLifting == u.ratio > 0
        cold == u.warmupSamplesRemaining > 0 \/ detectorZero
        initAttackCoeff == IF isLifting THEN u.lifterAttackCoeff ELSE u.attackCoeff
        warm == Min(Max(One + MulDiv(target - One, initAttackCoeff, One), 500), 2 * One)
        follow(c) == target + MulDiv(u.smoothedGain - target, c, One)
        gain == IF cold THEN warm
                ELSE IF ~isLifting
                  THEN follow(IF target < u.smoothedGain THEN u.releaseCoeff ELSE u.attackCoeff)
                  ELSE follow(IF target > u.smoothedGain THEN u.lifterReleaseCoeff
                              ELSE u.lifterAttackCoeff)
        wet == MulDiv(gain, Abs(input), One) * (IF input < 0 THEN -1 ELSE 1)
    IN [u EXCEPT
         !.peakHold = IF usePeak THEN peak ELSE @,
         !.rmsState = IF usePeak THEN @ ELSE rms,
         !.warmupSamplesRemaining = IF @ > 0 THEN @ - 1 ELSE @,
         !.smoothedGain = gain,
         !.currentGR = LevelDB(gain),
         !.ran = TRUE,
         !.instantDB = LevelDB(Abs(input)),
         !.targetGainDB = targetGainDB,
         !.warmBefore = u.warmupSamplesRemaining,
         !.sinceCold = @ + 1,
         !.out = <<MulDiv(input, One - u.mixAmount, One) + MulDiv(wet, u.mixAmount, One)>>]

\* setSampleRate, setRatio and setFastMode, called before the first sample
\* after a cold start
LowSetSampleRate(sr) ==
  /\ unitState.kind = "lowDynamic"
  /\ unitState.sinceCold = 0
  /\ unitState.resets < MaxLowResets
  /\ unitState' = [ResetState(UpdateTimingCoefficients([unitState EXCEPT !.sampleRate = sr]))
                     EXCEPT !.smoothedGain = One, !.resets = @ + 1]
  /\ UnitUnchanged

LowSetRatio(ratioValue) ==
  /\ unitState.kind = "lowDynamic"
  /\ unitState.sinceCold = 0
  /\ ratioValue # unitState.ratio
  /\ unitState' = [unitState EXCEPT !.ratio = ratioValue]
  /\ UnitUnchanged

LowSetFastMode(isFast) ==
  /\ unitState.kind = "lowDynamic"
  /\ unitState.sinceCold = 0
  /\ isFast # unitState.fastMode
  /\ unitState' = UpdateTimingCoefficients([unitState EXCEPT !.fastMode = isFast])
  /\ UnitUnchanged

LowReset ==
  /\ unitState.kind = "lowDynamic"
  /\ unitState.resets < MaxLowResets
  /\ unitState' = [ResetState(unitState) EXCEPT !.resets = @ + 1]
  /\ UnitUnchanged

LowProcess(input) ==
  /\ unitState.kind = "lowDynamic"
  /\ unitState.sinceCold < MaxLowCalls
  /\ unitState.sinceCold < MaxLowVaried \/ unitState.last = <<input>>
  /\ unitState' = [LowProcessInternal(unitState, input) EXCEPT !.last = <<input>>]
  /\ UnitUnchanged

(***************************************************************************)
(* EQSection::processInternal: the stages a sample goes through.  The      *)
(* biquad results of the shelves and the outputs of the bells are left     *)
(* uninterpreted (w); stages lists, in the order of execution, each        *)
(* stage with the sample it read and the sample it produced.               *)
(***************************************************************************)
EQStageNames == {"bass", "treble", "bell1", "bell2"}
EQVals == {-500, 500}
EQWetVals == {125, 250}

EQUnitInit ==
  [kind |-> "eq", flip |-> FALSE, bassGainLinear |-> One, trebleGainLinear |-> One,
   stages |-> <<>>, out |-> NoSample, calls |-> 0]

\* Baxandall2::process: both shelves filter the same inputSample, their
\* results are scaled and added
BaxandallProcess(inputSample, w, bassGainLinear, trebleGainLinear) ==
  LET trebleSample == DivT((inputSample - w["treble"]) * trebleGainLinear, One)
      bassSample == DivT(w["bass"] * bassGainLinear, One)
  IN  [treble |-> [stage |-> "treble", input |-> inputSample, output |-> trebleSample],
       bass |-> [stage |-> "bass", input |-> inputSample, output |-> bassSample],
       output |-> bassSample + trebleSample]

EQProcessInternal(input, w) ==
  /\ unitState.kind = "eq"
  /\ unitState.calls < MaxUnitCalls
  /\ LET bax == BaxandallProcess(input, w, unitState.bassGainLinear,
                                 unitState.trebleGainLinear)
         b1 == [stage |-> "bell1", input |-> bax.output, output |-> w["bell1"]]
         b2 == [stage |-> "bell2", input |-> b1.output, output |-> w["bell2"]]
     IN  unitState' = [unitState EXCEPT
           !.flip = ~@,
           !.stages = <<bax.treble, bax.bass, b1, b2>>,
           !.out = <<b2.output>>,
           !.calls = @ + 1]
  /\ UnitUnchanged

(***************************************************************************)
(* BellFilter: the dynamic Q.  Gains in thousandths of a dB, frequencies   *)
(* in Hz, Q in thousandths.  The eqBell1Gain / eqBell2Gain parameters are  *)
(* integers from -12 to +20 dB; the refresh adds the preset's gain offset. *)
(***************************************************************************)
BellGainMin == -12
BellGainMax == 20
BellGainOffsets == {0, presets[1].eqBell1Gain}
BellFreqs == {50, 1400}

\* the gain-derived base Q of calculateDynamicQ, before the frequency factor
BaseQ(gainDB) ==
  LET absGain == Abs(gainDB)
  IN  IF gainDB > 0
        THEN 150 + DivT(absGain * (750 - 150), 12 * One)
        ELSE 250 + DivT(absGain * (3300 - 500), 12 * One)

FreqFactor(freqHz) ==
  IF freqHz < 500 THEN 1100
  ELSE IF freqHz > 3000 THEN 900
  ELSE 1100 + DivT((freqHz - 500) * (900 - 1100), 2500)

CalculateDynamicQ(gainDB, freqHz) == DivT(BaseQ(gainDB) * FreqFactor(freqHz), One)

BellUnitInit ==
  [kind |-> "bell", currentFreq |-> 1000, currentGain |-> 0,
   baseQ |-> NoSample, Q |-> NoSample, prevGain |-> NoSample, prevBaseQ |-> NoSample]

\* BellFilter::setParameters as EQSection::setBell1WithVariation calls it
BellSetParameters(freqHz, gainDB, gainOffset) ==
  /\ unitState.kind = "bell"
  /\ LET g == gainDB + gainOffset
     IN  unitState' = [unitState EXCEPT
           !.currentFreq = freqHz,
           !.currentGain = g,
           !.baseQ = <<BaseQ(g)>>,
           !.Q = <<CalculateDynamicQ(g, freqHz)>>,
           !.prevGain = IF unitState.baseQ = NoSample THEN NoSample
                        ELSE <<unitState.currentGain>>,
           !.prevBaseQ = unitState.baseQ]
  /\ UnitUnchanged

(***************************************************************************)
(* The xorshift states of the left and the right instance of ToTape8 and   *)
(* Channel8Console.  PreInputSection::setChannelIndex, the only caller of  *)
(* ToTape8::setPRNGSeed, has no caller, so no action of the pair seeds an  *)
(* instance.  Whether a ToTape8 sample wraps sweep or phantomSweep depends *)
(* on nextmax, which the constructor derives from the uninitialised fpd:   *)
(* both outcomes are possible.                                             *)
(***************************************************************************)
TapeSeed == 17
ConsoleSeed == 1
MaxPairCalls == 4

\* ToTape8::ToTape8 and Channel8Console::Channel8Console end in reset()
PairInit ==
  [kind |-> "pair",
   tape |-> [ch \in Channels |-> ToBits(TapeSeed)],
   console |-> [ch \in Channels |-> ToBits(ConsoleSeed)],
   calls |-> 0]

\* ToTape8::reset: fpd = 17 whatever it was
PairTapeReset(ch) ==
  /\ unitState.kind = "pair"
  /\ unitState.calls < MaxPairCalls
  /\ unitState' = [unitState EXCEPT !.tape[ch] = ToBits(TapeSeed),
                                    !.calls = @ + 1]
  /\ UnitUnchanged

\* Channel8Console::reset: fpd = 1
PairConsoleReset(ch) ==
  /\ unitState.kind = "pair"
  /\ unitState.calls < MaxPairCalls
  /\ unitState' = [unitState EXCEPT !.console[ch] = ToBits(ConsoleSeed),
                                    !.calls = @ + 1]
  /\ UnitUnchanged

\* ToTape8::process: two draws when sweep wraps, two when phantomSweep wraps
PairTapeProcess(ch, sweepWraps, phantomWraps) ==
  /\ unitState.kind = "pair"
  /\ unitState.calls < MaxPairCalls
  /\ LET f0 == unitState.tape[ch]
         f1 == IF sweepWraps THEN Xorshift(Xorshift(f0)) ELSE f0
         f2 == IF phantomWraps THEN Xorshift(Xorshift(f1)) ELSE f1
     IN  unitState' = [unitState EXCEPT !.tape[ch] = f2, !.calls = @ + 1]
  /\ UnitUnchanged

\* Channel8Console::process: one draw per sample
PairConsoleProcess(ch) ==
  /\ unitState.kind = "pair"
  /\ unitState.calls < MaxPairCalls
  /\ unitState' = [unitState EXCEPT !.console[ch] = Xorshift(@), !.calls = @ + 1]
  /\ UnitUnchanged

(***************************************************************************)
(* The drive mapping at the head of PurestDrive::process, ToTape8::process *)
(* and Tube2::process, as PreInputSection and OutStageSection call them    *)
(* with their driveDB.  Drive in thousandths of a dB, intensity and sample *)
(* in thousandths.  preInputDrive spans -18 .. +18 dB, outStageDrive       *)
(* -24 .. +24 dB.                                                          *)
(***************************************************************************)
DriveAlgorithms == {"Pure", "Tape", "Tube"}
DriveSections == {"preInput", "outStage"}
DriveLimit(section) == IF section = "preInput" THEN 18 ELSE 24
DriveVals(section) == {d * One : d \in -DriveLimit(section) .. DriveLimit(section)}
DriveInputs == {-500, One}

\* the head of PurestDrive::process: the scaled sample and the intensity
PurestDriveHead(inputSample, driveDB) ==
  IF driveDB < 0
    THEN [inputSample |-> DivT(inputSample * DbToLinear(driveDB), One), intensity |-> 500]
    ELSE [inputSample |-> inputSample,
          intensity |-> Jlimit(500, One, 500 + DivT(driveDB, 36))]

\* the head of ToTape8::process: intensity is A
ToTape8Head(inputSample, driveDB) ==
  IF driveDB < 0
    THEN [inputSample |-> DivT(inputSample * DbToLinear(driveDB), One), intensity |-> 500]
    ELSE [inputSample |-> inputSample,
          intensity |-> Jlimit(500, One, 500 + DivT(driveDB, 36))]

Tube2HeadUnclamped(inputSample, driveDB) ==
  IF driveDB < 0
    THEN [inputSample |-> DivT(inputSample * DbToLinear(driveDB), One), intensity |-> 500]
    ELSE [inputSample |-> inputSample, intensity |-> 500 + DivT(driveDB, 36)]

\* the head of Tube2::process: intensity is A, which B follows
Tube2Head(inputSample, driveDB) ==
  IF driveDB < 0
    THEN [inputSample |-> DivT(inputSample * DbToLinear(driveDB), One), intensity |-> 500]
    ELSE [inputSample |-> inputSample,
          intensity |-> Jlimit(500, One, 500 + DivT(driveDB, 36))]

DriveUnitInit ==
  [kind |-> "drive", section |-> "preInput", algorithm |-> "Pure", driveDB |-> 0,
   input |-> NoSample, head |-> NoSample]

\* setDrive followed by one processInternal of the section
DriveProcess(section, algorithm, driveDB, input) ==
  /\ unitState.kind = "drive"
  /\ LET head == CASE algorithm = "Pure" -> PurestDriveHead(input, driveDB)
                   [] algorithm = "Tape" -> ToTape8Head(input, driveDB)
                   [] algorithm = "Tube" -> Tube2Head(input, driveDB)
     IN  unitState' = [unitState EXCEPT
           !.section = section, !.algorithm = algorithm, !.driveDB = driveDB,
           !.input = <<input>>, !.head = <<head>>]
  /\ UnitUnchanged

(***************************************************************************)
(* The flutter stage of ToTape8::process: the indices into delayBuffer.    *)
(* flutDepth and the offset in thousandths of a sample; sin(sweep) is any  *)
(* value of SinVals, in thousandths.  flutDepth has no initialiser: until  *)
(* setSampleRate runs, a process() reads whatever the member holds.        *)
(***************************************************************************)
DelayBufferLen == 1002
FlutDepthMax == 498
TapeRates == {0, 44100, 100000000, 150000000}
SinVals == {-One, 0, 500, One}
IndeterminateDepths == {0, 250 * One, 5000 * One}

\* flutDepth = pow (0.38, 6) * overallscale * 50, held at 498
FlutDepthUnclamped(sampleRate) == MulDiv(sampleRate, 151, 44100)

FlutDepth(sampleRate) ==
  LET flutDepth == MulDiv(sampleRate, 151, 44100)
  IN  IF flutDepth > FlutDepthMax * One THEN FlutDepthMax * One ELSE flutDepth

\* ToTape8::ToTape8 calls reset(): gcount = 0
TapeUnitInit ==
  [kind |-> "tape", flutDepth |-> NoSample, gcount |-> 0, flutter |-> NoSample]

TapeSetSampleRate(sampleRate) ==
  /\ unitState.kind = "tape"
  /\ unitState' = [unitState EXCEPT !.flutDepth = <<FlutDepth(sampleRate)>>,
                                    !.flutter = NoSample]
  /\ UnitUnchanged

TapeReset ==
  /\ unitState.kind = "tape"
  /\ unitState' = [unitState EXCEPT !.gcount = 0, !.flutter = NoSample]
  /\ UnitUnchanged

\* the flutter stage for one sample, sin (sweep) being sinSweep
Flutter(u, flutDepth, sinSweep) ==
  IF flutDepth > 0
    THEN LET gcount == IF u.gcount < 0 \/ u.gcount > 999 THEN 999 ELSE u.gcount
             swing == IF sinSweep >= 0 THEN MulDiv(flutDepth, sinSweep, One)
                      ELSE -MulDiv(flutDepth, -sinSweep, One)
             offset == flutDepth + swing
             count == gcount + (offset \div One)
         IN  [u EXCEPT
               !.gcount = gcount - 1,
               !.flutter = <<[entry |-> u.gcount, write |-> gcount, offset |-> offset,
                              readA |-> count - (IF count > 999 THEN 1000 ELSE 0),
                              readB |-> count + 1 - (IF count + 1 > 999 THEN 1000 ELSE 0)]>>]
    ELSE [u EXCEPT !.flutter = NoSample]

TapeProcess(sinSweep, indeterminate) ==
  /\ unitState.kind = "tape"
  /\ unitState.flutDepth # NoSample => indeterminate = 0
  /\ LET flutDepth == IF unitState.flutDepth = NoSample THEN indeterminate
                      ELSE unitState.flutDepth[1]
     IN  unitState' = Flutter(unitState, flutDepth, sinSweep)
  /\ UnitUnchanged

Init ==
  /\ MainInit
  /\ secState = SecInit("volume")
  /\ cvState = CVIdle
  /\ compState = CompInit
  /\ clipState = ClipInit
  /\ unitState = UnitIdle

Spec == Init /\ [][Next]_vars

InitSection ==
  /\ MainInit
  /\ secState \in {SecInit(kind) : kind \in SectionKinds}
  /\ cvState = CVIdle
  /\ compState = CompInit
  /\ clipState = ClipInit
  /\ unitState = UnitIdle

NextSection ==
  \/ \E sampleRate \in SectionRates : SecSetSampleRate(sampleRate)
  \/ \E arg \in ConfigArgs : SecConfigure(arg)
  \/ \E shouldBypass \in BOOLEAN : SecSetBypass(shouldBypass)
  \/ \E w \in WetVals : \E g \in GRVals : SecProcess(w, g)

SpecSection == InitSection /\ [][NextSection]_vars

\* the host keeps calling process(): the audio callback runs as long as the
\* plugin is loaded
SpecSectionFair ==
  SpecSection /\ WF_vars(\E w \in WetVals : \E g \in GRVals : SecProcess(w, g))

InitCV ==
  /\ MainInit
  /\ secState = SecInit("volume")
  /\ cvState \in {[CVIdle EXCEPT !.mode = m, !.pair = p, !.ch = c] :
                    m \in ModeVals, p \in PairVals, c \in Channels}
  /\ compState = CompInit
  /\ clipState = ClipInit
  /\ unitState = UnitIdle

NextCV == SelectVariation

SpecCV == InitCV /\ [][NextCV]_vars

InitComp ==
  /\ MainInit
  /\ secState = SecInit("volume")
  /\ cvState = CVIdle
  /\ compState = CompInit
  /\ clipState = ClipInit
  /\ unitState = UnitIdle

NextComp ==
  \/ \E sampleRate \in CompRates : CompPrepareToPlay(sampleRate)
  \/ \E dB \in ThresholdVals : CompSetThreshold(dB)
  \/ \E cb, sb \in BOOLEAN : CompSetBypass(cb, sb)
  \/ \E x, y \in CompSampleVals : \E rmsDB \in RmsDBVals : \E T13 \in T13Vals :
       CompSample(x, y, rmsDB, T13)

SpecComp == InitComp /\ [][NextComp]_vars

InitClip ==
  /\ MainInit
  /\ secState = SecInit("volume")
  /\ cvState = CVIdle
  /\ compState = CompInit
  /\ clipState = ClipInit
  /\ unitState = UnitIdle

NextClip ==
  \/ \E sampleRate \in ClipRates : ClipSetSampleRate(sampleRate)
  \/ \E input \in ClipVals : ClipProcess(input)

SpecClip == InitClip /\ [][NextClip]_vars

InitUnit ==
  /\ MainInit
  /\ secState = SecInit("volume")
  /\ cvState = CVIdle
  /\ compState = CompInit
  /\ clipState = ClipInit
  /\ unitState \in {Channel8Init, LowUnitInit, EQUnitInit, BellUnitInit, PairInit,
                    DriveUnitInit, TapeUnitInit}

NextUnit ==
  \/ \E type \in ConsoleTypes : Channel8SetConsoleType(type)
  \/ \E sampleRate \in Channel8Rates : Channel8SetSampleRate(sampleRate)
  \/ Channel8Process
  \/ \E sr \in LowRates : LowSetSampleRate(sr)
  \/ \E ratioValue \in LowRatios : LowSetRatio(ratioValue)
  \/ \E isFast \in BOOLEAN : LowSetFastMode(isFast)
  \/ LowReset
  \/ \E input \in LowVals : LowProcess(input)
  \/ \E input \in EQVals : \E w \in [EQStageNames -> EQWetVals] : EQProcessInternal(input, w)
  \/ \E freqHz \in BellFreqs : \E gainDB \in BellGainMin .. BellGainMax :
       \E gainOffset \in BellGainOffsets :
         BellSetParameters(freqHz, gainDB * One, gainOffset)
  \/ \E ch \in Channels : PairTapeReset(ch)
  \/ \E ch \in Channels : PairConsoleReset(ch)
  \/ \E ch \in Channels : \E sweepWraps, phantomWraps \in BOOLEAN :
       PairTapeProcess(ch, sweepWraps, phantomWraps)
  \/ \E ch \in Channels : PairConsoleProcess(ch)
  \/ \E section \in DriveSections : \E algorithm \in DriveAlgorithms :
       \E driveDB \in DriveVals(section) : \E input \in DriveInputs :
         DriveProcess(section, algorithm, driveDB, input)
  \/ \E sampleRate \in TapeRates : TapeSetSampleRate(sampleRate)
  \/ TapeReset
  \/ \E sinSweep \in SinVals : \E indeterminate \in IndeterminateDepths :
       TapeProcess(sinSweep, indeterminate)

SpecUnit == InitUnit /\ [][NextUnit]_vars

(***************************************************************************)
(* Properties                                                              *)
(***************************************************************************)
AllBypassed(ch) ==
  /\ preInput[ch].targetBypass /\ filters[ch].targetBypass
  /\ controlComp[ch].targetBypass /\ eq[ch].targetBypass
  /\ styleComp[ch].targetBypass /\ console[ch].targetBypass
  /\ outStage[ch].targetBypass /\ volume[ch].targetBypass

\* the fields of a section record that are parameters or derived coefficients
SectionConfig(s) ==
  [f \in DOMAIN s \ {"bypassMix", "hasHistory", "gr"} |-> s[f]]

ChainConfig ==
  [ch \in Channels |->
     <<SectionConfig(preInput[ch]), SectionConfig(filters[ch]), SectionConfig(controlComp[ch]),
       SectionConfig(eq[ch]), SectionConfig(styleComp[ch]), SectionConfig(console[ch]),
       SectionConfig(outStage[ch]), SectionConfig(volume[ch])>>]

\* the parameter values a channel's sections were given by the setters
SectionParams(ch) ==
  <<preInput[ch].targetBypass, filters[ch].targetBypass, controlComp[ch].targetBypass,
    eq[ch].targetBypass, styleComp[ch].targetBypass, console[ch].targetBypass,
    outStage[ch].targetBypass, volume[ch].targetBypass,
    filters[ch].hpfFreq, outStage[ch].currentAlgorithm, volume[ch].gainDB>>

\* the atomics the metering getters of the processor load
GetterAtomics ==
  {"inputPeakLeft", "inputPeakRight", "outputPeakLeft", "outputPeakRight",
   "controlCompGRLeft", "controlCompGRRight", "styleCompGRLeft", "styleCompGRRight",
   "outStageGRLeft", "outStageGRRight"}

\* C1: with a constant input, a configured sample rate and a wet signal that
\* differs from the input, two consecutive outputs of process() never differ
\* by more than fadeCoeff * |wet - dry| (plus one unit of rounding), whatever
\* setBypass did between the two calls.
SmoothBypass ==
  LET st == secState
  IN  (st.prevOut # NoSample /\ st.out # NoSample
         /\ st.s.fadeCoeff > 0 /\ st.s.fadeCoeff <= One
         /\ st.wet[1] # TestInput)
        => Abs(st.out[1] - st.prevOut[1])
             <= DivT(st.s.fadeCoeff * Abs(st.wet[1] - TestInput), One) + 1

RefreshThenFixedOrder ==
  /\ pc.at \in {"sample", "grStore", "outStageGR"} => refreshed = Channels
  /\ \A ch \in Channels :
       buffer[ch] # NoSample =>
         /\ refreshed = Channels
         /\ callLog = <<"preInput", "filters", "controlComp", "eq", "styleComp",
                        "console", "outStage", "volume">>

\* the right channel went through the full chain with a bypassed section and
\* a non-default Out-Stage algorithm
FixedOrderReached ==
  /\ pc.at = "grStore" /\ pc.channel = 1
  /\ Len(callLog) = 8
  /\ preInput[1].targetBypass
  /\ outStage[1].currentAlgorithm = 4

\* C4: a step taken while the audio thread is in the sample loop leaves the
\* parameters and the derived coefficients of every section as they were;
\* only the crossfade mix and the algorithm state move.
SectionsFixedDuringBlock ==
  [][pc.at = "sample" => ChainConfig' = ChainConfig]_vars

\* C5: once the refresh of a block is complete, both channels were configured
\* from the same parameter values, so with channel variation Off their
\* sections hold the same parameters.
SameValuesBothChannels ==
  (refreshed = Channels /\ loaded[0].channelVariationMode = 0
     /\ loaded[1].channelVariationMode = 0)
    => /\ loaded[0] = loaded[1]
       /\ SectionParams(0) = SectionParams(1)

\* C6: the audio thread creates no heap object inside processBlock.
NoRealtimeAllocation == rtAllocs = 0

\* C7: section instances, meter state and output of a channel are reached
\* only by that channel's own samples.
ChannelsIndependent ==
  \A c \in Channels :
    /\ dep.sections[c] \subseteq {c}
    /\ dep.meters[c] \subseteq {c}
    /\ dep.out[c] \subseteq {c}

\* two blocks of both channels were processed
BothChannelsProcessed ==
  /\ blocks = 2 /\ pc.at = "idle"
  /\ \A c \in Channels : dep.sections[c] = {c} /\ dep.meters[c] = {c} /\ dep.out[c] = {c}

\* C8: after a completed block every atomic a metering getter loads was
\* stored by the audio thread during that block.
GettersReadStoredAtomics ==
  (pc.at = "idle" /\ blocks > 0) => GetterAtomics \subseteq stored

\* C9: the published Control-Comp and Style-Comp gain reductions are at most
\* 0 dB, the CL1B gain-reduction factor is in (0, 1], and the published peaks
\* are not negative.
MetersInRange ==
  /\ compState.pub.controlCompGR <= 0
  /\ compState.pub.styleCompGR <= 0
  /\ compState.dvc.grMeterDB <= 0
  /\ Cl1bGainReduction(compState.cl1b) \in 1..One
  /\ compState.pub.inputPeak >= 0
  /\ compState.pub.outputPeak >= 0

\* both compressors published a reduction and both peak meters a level
MetersMoved ==
  /\ compState.samples >= 2
  /\ compState.pub.controlCompGR < 0
  /\ compState.pub.styleCompGR < 0
  /\ compState.pub.inputPeak > 0
  /\ compState.pub.outputPeak > 0

\* C10: mode Off selects the neutral record; Stereo selects index 2*pair + ch
\* and Mono index 2*pair; for a pair in 0..23 that index is in 0..47 and the
\* record is the table entry at it; an index outside 0..47 selects the
\* neutral record.
VariationSelection ==
  LET c == cvState
  IN  c.done =>
        /\ c.mode = 0 => c.cv = NeutralPreset
        /\ c.mode = 1 => c.variationIndex = 2 * c.pair + c.ch
        /\ c.mode = 2 => c.variationIndex = 2 * c.pair
        /\ (c.mode \in {1, 2} /\ c.pair \in 0..23) =>
             /\ c.variationIndex \in 0..47
             /\ c.cv = presets[c.variationIndex + 1]
        /\ c.variationIndex \notin 0..47 => c.cv = NeutralPreset

\* the right channel of the last pair selected the last table entry
LastPresetSelected ==
  /\ cvState.done
  /\ cvState.mode = 1 /\ cvState.pair = 23 /\ cvState.ch = 1
  /\ cvState.variationIndex = 47
  /\ cvState.cv = presets[48]
  /\ cvState.cv # NeutralPreset

\* C11: a setSampleRate call with a rate <= 0 leaves the crossfade
\* coefficient of the section at the value it had before the call.
NonPositiveRateKeepsCoefficients ==
  (secState.rate # NoSample /\ secState.rate[1] <= 0)
    => secState.s.fadeCoeff = secState.before[1]

\* C12: the value a parameter setter stores lies in the documented range of
\* the parameter: -60..+12 dB for the output gain, -10..+10 for the
\* Low-Dynamic ratio.
SetterStoresValueInRange ==
  /\ secState.kind = "volume"
       => (secState.s.gainDB >= -60 * One /\ secState.s.gainDB <= 12 * One)
  /\ secState.kind = "lowDynamic"
       => (secState.s.ratio >= -10 * One /\ secState.s.ratio <= 10 * One)

\* C14: a sample the Low-Dynamic section processed with ratio 0 and bypass
\* off is returned unchanged, and the call leaves the smoothed gain at 1 and
\* the gain reduction at 0 dB.
LowDynamicUnityAtZeroRatio ==
  (secState.kind = "lowDynamic" /\ secState.out # NoSample /\ secState.ran
     /\ secState.s.ratio = 0 /\ ~secState.s.targetBypass)
    => /\ secState.out[1] = TestInput
       /\ secState.s.smoothedGain = One
       /\ secState.s.currentGR = 0

\* a sample was processed with ratio 0 right after the envelope follower had
\* left a gain other than 1
ZeroRatioAfterDetection ==
  /\ secState.kind = "lowDynamic" /\ secState.out # NoSample /\ secState.ran
  /\ secState.s.ratio = 0 /\ ~secState.s.targetBypass
  /\ secState.gainBefore # NoSample /\ secState.gainBefore[1] # One

\* C15: right after prepareToPlay the gain and meter state of the
\* Control-Comp compressor and the detector filters of the Style-Comp
\* compressor hold their freshly constructed values.
PrepareToPlayResetsState ==
  compState.last = "prepareToPlay"
    => /\ compState.dvc.gainDB = DvcInit.gainDB
       /\ compState.dvc.grMeterDB = DvcInit.grMeterDB
       /\ compState.cl1b.lpf1_state = Cl1bInit.lpf1_state
       /\ compState.cl1b.lpf2_state = Cl1bInit.lpf2_state

\* C13: when a refresh has called the setters again, the tape coefficients of
\* the Pre-Input and Out-Stage sections are the ones setSampleRate and the
\* first call of the same setters left, whatever was processed in between.
SettersKeepCoefficients ==
  (pc.at = "sample" /\ pc.channel = 0 /\ pc.sample = 0)
    => \A ch \in Channels :
         /\ preInput[ch].tapeCoeffs =
              UpdatePreInput(PreInputSetSampleRate(preInput[ch], preInput[ch].currentSampleRate),
                             loaded[ch]).tapeCoeffs
         /\ outStage[ch].tapeCoeffs =
              UpdateOutStage(OutStageSetSampleRate(outStage[ch], outStage[ch].currentSampleRate),
                             loaded[ch]).tapeCoeffs

\* C16: the value a process() call returns is wet * (1 - mix) + dry * mix for
\* the crossfade value the call left, in both fade directions.
ProcessReturnsBlend ==
  (secState.out # NoSample /\ secState.s.fadeCoeff > 0 /\ secState.s.fadeCoeff <= One)
    => secState.out[1] =
         DivT(secState.wet[1] * (One - secState.s.bypassMix)
                + TestInput * secState.s.bypassMix, One)

\* C17: after setSampleRate with a rate of at least 100 Hz the crossfade
\* value stays within [0, 1], and a process() call moves it only towards the
\* target of that call, by at most fadeCoeff * |target - mix| plus the snap
\* of 0.01.
FadeBoundedAndMonotone ==
  (secState.rate # NoSample /\ secState.rate[1] >= 100 /\ secState.mixBefore # NoSample)
    => LET old == secState.mixBefore[1]
           new == secState.s.bypassMix
           fc == secState.s.fadeCoeff
       IN  /\ new >= 0 /\ new <= One
           /\ secState.targetAt
                => (new >= old /\ new - old <= DivT(fc * (One - old), One) + 10)
           /\ ~secState.targetAt
                => (new <= old /\ old - new <= DivT(fc * old, One) + 10)

\* the bypass target was switched in the middle of a fade and the next call
\* moved the crossfade value back from where the fade had brought it
FadeReversedMidway ==
  /\ secState.rate # NoSample /\ secState.rate[1] >= 100
  /\ secState.mixBefore # NoSample
  /\ secState.mixBefore[1] > 0 /\ secState.mixBefore[1] < One
  /\ ~secState.targetAt /\ secState.toggles >= 2
  /\ secState.s.bypassMix < secState.mixBefore[1]

\* C18: in a section that is processing with the positive sample rate it was
\* last given, a bypass target that is held is reached exactly by the
\* crossfade value after finitely many process() calls.
FadeCompletes ==
  /\ (secState.calls > 0 /\ secState.rate # NoSample /\ secState.rate[1] > 0
        /\ secState.s.targetBypass)
       ~> (secState.s.bypassMix = One \/ ~secState.s.targetBypass)
  /\ (secState.calls > 0 /\ secState.rate # NoSample /\ secState.rate[1] > 0
        /\ ~secState.s.targetBypass)
       ~> (secState.s.bypassMix = 0 \/ secState.s.targetBypass)

\* C19: processInternal never runs on algorithm state that went through a
\* bypassed call without a reset().
NoStaleResume ==
  (secState.rate # NoSample /\ secState.rate[1] >= 100) => secState.algo # "resumed"
\* C20: every process call of the clippers writes its latency buffer at an
\* index inside the 16-element array, whatever the sample rate.
SpacingWithinBuffer ==
  clipState.written # NoSample => clipState.written[1] \in 0 .. IntermediateLen - 1

\* C21: whenever a Channel8 console has processed a sample, the highpass
\* coefficient it used is the selected profile's constant scaled by
\* 44100/sampleRate and the slew threshold is the selected profile's constant.
Channel8UsesOwnProfile ==
  (unitState.kind = "channel8" /\ unitState.used # NoSample) =>
    /\ unitState.used[1] = Channel8Scale(Channel8Profile[unitState.currentType].iirAmount,
                                         unitState.currentSampleRate)
    /\ unitState.used[2] = Channel8Profile[unitState.currentType].threshold

\* C22: an EQ section whose processInternal has run since its last reset holds
\* the shelf coefficients computed from its current gains, corner frequencies
\* and sample rate, never the zeroed ones reset() leaves.
EQCoefficientsCurrent ==
  \A ch \in Channels :
    eq[ch].hasHistory =>
      eq[ch].shelfCoeffs = <<eq[ch].bassGainDB, eq[ch].trebleGainDB, eq[ch].bassFreqHz,
                             eq[ch].trebleFreqHz, eq[ch].currentSampleRate>>

\* the EQ went through a bypass (and its reset) and is processing again, in
\* the middle of the fade back
EQResumedAfterBypass ==
  \E ch \in Channels :
    /\ eq[ch].hasHistory /\ ~eq[ch].targetBypass
    /\ eq[ch].bypassMix > 0 /\ eq[ch].bypassMix < One

\* C23: on a Low-Dynamic sample whose instantaneous level is at or above the
\* threshold the target gain is 0 dB; a target gain other than 0 dB occurs
\* only on a sample whose instantaneous level is below the threshold.
InstantLevelGates ==
  (unitState.kind = "lowDynamic" /\ unitState.ran) =>
    /\ unitState.instantDB >= unitState.threshold => unitState.targetGainDB = 0
    /\ unitState.targetGainDB # 0 => unitState.instantDB < unitState.threshold

\* a sample at or above the threshold was processed while the smoothed RMS
\* level was still below the threshold
LoudSampleOnQuietDetector ==
  /\ unitState.kind = "lowDynamic" /\ unitState.ran
  /\ unitState.instantDB >= unitState.threshold
  /\ LevelDB(unitState.rmsState \div One) \div 2 < unitState.threshold

\* C24: each of the first 100 samples a Low-Dynamic section processes with a
\* non-zero ratio after a cold start is given a gain within [0.5, 2.0] and
\* takes one off the warm-up counter, which never goes below zero.
WarmupClampsGain ==
  unitState.kind = "lowDynamic" =>
    /\ unitState.warmupSamplesRemaining >= 0
    /\ (unitState.ran /\ unitState.sinceCold <= WarmupSamples) =>
          /\ unitState.smoothedGain >= 500 /\ unitState.smoothedGain <= 2 * One
          /\ unitState.warmupSamplesRemaining = unitState.warmBefore - 1

\* C25: a sample processed by the Control-Comp compressor moves the gain
\* towards seekGain without passing it, by the attack factor when the gain is
\* above seekGain and by the release factor otherwise; attack and release are
\* below 1 (negative in dB) and the gain never exceeds 1 (0 dB).
GainFollowsSeekGain ==
  [][(compState'.samples = compState.samples + 1 /\ BypassStep(compState.ctrl).internal)
       => LET was == compState.dvc.gainDB
              now == compState'.dvc.gainDB
              seek == compState'.dvc.seekGainDB
          IN  /\ compState.dvc.attackDB < 0 /\ compState.dvc.releaseDB < 0
              /\ now <= 0 /\ seek <= 0
              /\ was > seek => (now = Max(was + compState.dvc.attackDB, seek)
                                /\ seek <= now /\ now < was)
              /\ was <= seek => (now = Min(was - compState.dvc.releaseDB, seek)
                                 /\ was <= now /\ now <= seek)]_vars

\* the compressor is in the middle of an attack: the gain has left 0 dB and
\* has not reached seekGain yet
AttackUnderWay ==
  /\ compState.last = "processBlock"
  /\ compState.dvc.seekGainDB < compState.dvc.gainDB
  /\ compState.dvc.gainDB < 0

\* C26: a sample the EQ section has processed went through bass shelf,
\* bell 1, bell 2 and treble shelf in this order, the bass shelf reading the
\* section's input, every later stage reading the output of the stage before,
\* and the treble shelf producing the section's output.
EQSeriesOrder ==
  (unitState.kind = "eq" /\ unitState.stages # <<>>) =>
    LET s == unitState.stages
    IN  /\ [i \in 1 .. 4 |-> s[i].stage] = <<"bass", "bell1", "bell2", "treble">>
        /\ \A i \in 2 .. 4 : s[i].input = s[i - 1].output
        /\ unitState.out = <<s[4].output>>

\* C27: the base Q a bell derives from its gain lies in 0.15 .. 0.75 for a
\* positive gain and in 0.25 .. 3.3 for a zero or negative gain, and of two
\* gains of the same sign set one after the other the one with the larger
\* magnitude never has the smaller base Q.
BaseQInRange ==
  (unitState.kind = "bell" /\ unitState.baseQ # NoSample) =>
    LET g == unitState.currentGain
        q == unitState.baseQ[1]
    IN  /\ g > 0 => (q >= 150 /\ q <= 750)
        /\ g <= 0 => (q >= 250 /\ q <= 3300)
        /\ unitState.prevGain # NoSample =>
             LET pg == unitState.prevGain[1]
                 pq == unitState.prevBaseQ[1]
             IN  ((pg > 0) = (g > 0) /\ Abs(pg) <= Abs(g)) => pq <= q

\* C28: after construction and after any sequence of resets and processed
\* samples, the xorshift state of the left ToTape8 differs from that of the
\* right ToTape8, and the state of the left Channel8Console differs from that
\* of the right one.
LeftRightSeedsDiffer ==
  unitState.kind = "pair" =>
    /\ unitState.tape[0] # unitState.tape[1]
    /\ unitState.console[0] # unitState.console[1]

FlutterIndicesInBuffer ==
  (unitState.kind = "tape" /\ unitState.flutDepth # NoSample
     /\ unitState.flutter # NoSample) =>
    LET f == unitState.flutter[1]
    IN  /\ f.write \in 0 .. 999
        /\ f.write = (IF f.entry \in 0 .. 999 THEN f.entry ELSE 999)
        /\ unitState.gcount = f.write - 1
        /\ f.offset >= 0 /\ f.offset <= 996 * One
        /\ f.readA \in 0 .. 999 /\ f.readB \in 0 .. 999
        /\ f.readA < DelayBufferLen /\ f.readB < DelayBufferLen

\* at a rate that holds flutDepth at 498, gcount wrapped from -1 to 999 and
\* the sample was read 996 slots ahead, across the end of the buffer
FlutterWrapsAtFullDepth ==
  /\ unitState.kind = "tape" /\ unitState.flutDepth = <<FlutDepthMax * One>>
  /\ unitState.flutter # NoSample
  /\ unitState.flutter[1].entry = -1 /\ unitState.flutter[1].write = 999
  /\ unitState.flutter[1].offset = 996 * One
  /\ unitState.flutter[1].readA = 995 /\ unitState.flutter[1].readB = 996
====
